---- MODULE Spec2Model ----
(***************************************************************************)
(* A model of the demo2agent workflow engine (src/demo2agent).             *)
(*                                                                         *)
(*   - output validation: models.make_output_model and                     *)
(*     orchestrator._validate_outputs, with the lax-mode conversions of    *)
(*     the pydantic v2 models that make_output_model builds;               *)
(*   - Orchestrator.run: render, dispatch, validate, verify, commit,       *)
(*     retry and repair;                                                   *)
(*   - _render_step on its own;                                            *)
(*   - LLMJsonCaller.call_json (src/demo2agent/llm_json.py): the request   *)
(*     loop with its repair follow-ups;                                    *)
(*   - Compiler._validate_workflow (src/demo2agent/compiler_llm.py): the   *)
(*     template normalisation before validation;                           *)
(*   - cmd_run (src/demo2agent/cli.py) up to the start of the run;         *)
(*   - test_step (src/test_step.py): its rendering of a step.              *)
(*                                                                         *)
(* Python values are records [k |-> kind, v |-> text]: kind is the Python  *)
(* type, text the value written as a string, so that values of different   *)
(* Python types stay comparable.                                           *)
(***************************************************************************)
EXTENDS Integers, Sequences, FiniteSets, TLC

VARIABLES
    \* ---- Orchestrator.run ----
    wf,          \* the local wf of run (rebound by the repair hook)
    iterSteps,   \* the list enumerate(wf.steps) iterates (bound at loop entry)
    inputs,      \* the caller's inputs mapping
    hook,        \* self.repair_hook is configured
    ctxInputs,   \* ctx without its "steps" key
    ctxSteps,    \* ctx["steps"]
    pc,          \* position of run
    i,           \* loop index (1-based position in iterSteps)
    attempt,     \* the retry loop's attempt
    step,        \* the rendered step being attempted
    last_err,    \* last_err
    raised,      \* the error run raised (NoErr while none)
    attempts,    \* history: try-block entries for the step at i
    invoked,     \* history: capability invocations for the step at i
    hookCalls,   \* history: repair hook invocations for the step at i
    commits,     \* history: the commits, in order
    onlyRaises,  \* history: every failed attempt at i was a capability raising
    postAttempts,\* history: attempts made after a repair for the step at i
    called,      \* history: the steps handed to a capability for the step at i
    returned,    \* history: the outcome of the last attempt's capability call, if it returned
    renders,     \* history: _render_step calls for the step at i
    verified,    \* history: the outputs verify was last called with (<<>> when not called)
    \* ---- _validate_outputs on its own ----
    vSchema,     \* step.outputs_schema
    vRaw,        \* the mapping the capability returned
    vRes,        \* the result of _validate_outputs (NotRun before the call)
    \* ---- LLMJsonCaller.call_json ----
    jRetries,    \* cfg.retries
    jUser,       \* user_content
    jExtra,      \* extra_repair_instructions (<<>> for None)
    jPc,         \* position of call_json
    jAttempt,    \* attempt
    jLastErr,    \* last_err (<<>> for None)
    jLastText,   \* last_text (<<>> for None)
    jResult,     \* what call_json returned or raised
    jRequests,   \* history: the user content of each request, in order
    jResponses,  \* history: the responses, in order
    \* ---- Compiler._validate_workflow ----
    nObj,        \* the object the oracle produced
    nRes,        \* the object after _walk_and_normalize (NotNormalized before)
    \* ---- cmd_run ----
    cArgs,       \* args.text, args.inputs and the state of workflow.json
    cPc,         \* position of cmd_run
    cInputs,     \* inputs, as given to Orchestrator.run
    \* ---- test_step ----
    tRes,        \* what test_step rendered and returned (NotTested before)
    \* ---- MacOSAXDesktopExecutor.run ----
    dStep,       \* the step: inputs.actions (<<>> when absent) and policy.max_actions
    dPc,         \* position of the executor's run
    dActions,    \* actions
    dDone        \* history: the primitive actions _run_action has executed

orchVars == <<wf, iterSteps, inputs, hook, ctxInputs, ctxSteps, pc, i, attempt,
              step, last_err, raised, attempts, invoked, hookCalls, commits,
              onlyRaises, postAttempts, called, returned, renders, verified>>
valVars == <<vSchema, vRaw, vRes>>
jsonVars == <<jRetries, jUser, jExtra, jPc, jAttempt, jLastErr, jLastText, jResult,
              jRequests, jResponses>>
deskVars == <<dStep, dPc, dActions, dDone>>
auxVars == <<nObj, nRes, cArgs, cPc, cInputs, tRes, deskVars>>
vars == <<orchVars, valVars, jsonVars, auxVars>>

-----------------------------------------------------------------------------
(* Bounds *)

MaxFields == 2      \* output field names in the validation specification
MaxSteps == 2       \* steps in a workflow
MaxRetries == 2     \* largest policy.retries
MaxJsonRetries == 2 \* largest cfg.retries of call_json
MaxPieces == 4      \* pieces a string of an oracle-produced workflow is made of

-----------------------------------------------------------------------------
(* Python values *)

Val(k, v) == [k |-> k, v |-> v]

StrVals == {Val("str", ""), Val("str", "abc"), Val("str", "1.5"), Val("str", "true")}
FloatVals == {Val("float", "1.5"), Val("float", "1")}
IntVals == {Val("int", "1"), Val("int", "7")}
BoolVals == {Val("bool", "True"), Val("bool", "False")}
NoneVal == Val("none", "None")
PyVals == StrVals \cup FloatVals \cup IntVals \cup BoolVals \cup {NoneVal}

\* The strings float() parses, among the strings of the model.
NumericText == {"1.5", "1", "7", "0"}
\* The strings pydantic's bool validator accepts (after lower-casing).
TrueText == {"1", "on", "t", "true", "y", "yes"}
FalseText == {"0", "off", "f", "false", "n", "no"}

Failed == [k |-> "error", v |-> "ValidationError"]

-----------------------------------------------------------------------------
(* models.py: the output model of a step *)

ValueType == {"string", "number", "path", "boolean"}

\* _TYPE_MAP: declared type -> (Python type, default)
TYPE_MAP(t) ==
    CASE t = "string"  -> [py |-> "str",   default |-> Val("str", "")]
      [] t = "number"  -> [py |-> "float", default |-> Val("float", "0")]
      [] t = "path"    -> [py |-> "str",   default |-> Val("str", "")]
      [] t = "boolean" -> [py |-> "bool",  default |-> Val("bool", "False")]
      [] OTHER         -> [py |-> "str",   default |-> Val("str", "")]

\* make_output_model with every declared type treated as the unknown type
make_output_model_AllStr(outputs_schema) ==
    IF DOMAIN outputs_schema = {}
    THEN [f \in {"ok"} |-> [py |-> "str", default |-> Val("str", "")]]
    ELSE [f \in DOMAIN outputs_schema |-> [py |-> "str", default |-> Val("str", "")]]

\* make_output_model: field name -> (Python type, default); an empty schema
\* gives the one-field model ok="".
make_output_model(outputs_schema) ==
    IF DOMAIN outputs_schema = {}
    THEN [f \in {"ok"} |-> [py |-> "str", default |-> Val("str", "")]]
    ELSE [f \in DOMAIN outputs_schema |-> TYPE_MAP(outputs_schema[f])]

\* pydantic (lax mode) validating value x for a str field
CoerceStr(x) == IF x.k = "str" THEN x ELSE Failed

\* pydantic (lax mode) validating value x for a float field
CoerceFloat(x) ==
    CASE x.k = "float" -> x
      [] x.k = "int"   -> Val("float", x.v)
      [] x.k = "bool"  -> Val("float", IF x.v = "True" THEN "1" ELSE "0")
      [] x.k = "str"   -> IF x.v \in NumericText THEN Val("float", x.v) ELSE Failed
      [] OTHER         -> Failed

\* pydantic (lax mode) validating value x for a bool field
CoerceBool(x) ==
    CASE x.k = "bool" -> x
      [] x.k \in {"int", "float"} ->
             IF x.v = "1" THEN Val("bool", "True")
             ELSE IF x.v = "0" THEN Val("bool", "False")
             ELSE Failed
      [] x.k = "str" ->
             IF x.v \in TrueText THEN Val("bool", "True")
             ELSE IF x.v \in FalseText THEN Val("bool", "False")
             ELSE Failed
      [] OTHER -> Failed

Coerce(py, x) ==
    CASE py = "str"   -> CoerceStr(x)
      [] py = "float" -> CoerceFloat(x)
      [] py = "bool"  -> CoerceBool(x)

\* ModelField with the fields of the model required (no default)
ModelField_Required(model, outputs, f) ==
    IF f \in DOMAIN outputs THEN Coerce(model[f].py, outputs[f]) ELSE Failed

\* OutputModel.model_validate(outputs).model_dump(): extra keys are ignored,
\* absent fields take their default, present fields are validated.
ModelField(model, outputs, f) ==
    IF f \in DOMAIN outputs THEN Coerce(model[f].py, outputs[f]) ELSE model[f].default

ModelValidates(model, outputs) ==
    \A f \in DOMAIN model : ModelField(model, outputs, f) # Failed

\* ModelDump of a model that keeps extra keys (extra="allow")
ModelDump_AllowExtra(model, outputs) ==
    [f \in DOMAIN model \cup DOMAIN outputs |->
        IF f \in DOMAIN model THEN ModelField(model, outputs, f) ELSE outputs[f]]

ModelDump(model, outputs) ==
    [f \in DOMAIN model |-> ModelField(model, outputs, f)]

-----------------------------------------------------------------------------
(* orchestrator.py: _validate_outputs *)

\* The RuntimeError of _validate_outputs: it names the step, the expected
\* fields and the keys received.
OutputError(id, outputs_schema, outputs) ==
    [ok |-> FALSE, step |-> id, expected |-> DOMAIN outputs_schema,
     got |-> DOMAIN outputs]

\* _validate_outputs(step, outputs) for a mapping outputs
validate_outputs(id, outputs_schema, outputs) ==
    LET OutputModel == make_output_model(outputs_schema)
    IN  IF ModelValidates(OutputModel, outputs)
        THEN [ok |-> TRUE, dumped |-> ModelDump(OutputModel, outputs)]
        ELSE OutputError(id, outputs_schema, outputs)

-----------------------------------------------------------------------------
(* _validate_outputs on its own: the inputs are drawn from bounded sets *)

FieldPool == <<"ok", "lat", "front_app", "url">>
Fields == {FieldPool[n] : n \in 1..MaxFields}

Schemas == UNION {[D -> ValueType] : D \in SUBSET Fields}
Raws == UNION {[D -> PyVals] : D \in SUBSET Fields}

NotRun == [ok |-> FALSE, step |-> "", expected |-> {}, got |-> {}]

-----------------------------------------------------------------------------
(* call_json: user content, requests, responses *)

\* One piece of the user content of a request: a part of the caller's
\* user_content, or the repair prefix with the error text it quotes, the
\* extra constraints and the previous output it quotes (<<>> when it has none)
Seg(kind, body, err, extra, out) ==
    [kind |-> kind, body |-> body, err |-> err, extra |-> extra, out |-> out]
UserSeg(body) == Seg("user", body, "", <<>>, <<>>)

\* user_content: a plain string or a list of content parts
UserContents ==
    {[form |-> "str", segs |-> <<UserSeg("evidence")>>],
     [form |-> "list", segs |-> <<UserSeg("input_text"), UserSeg("input_image")>>]}

NoResult == [kind |-> "none", attempts |-> 0, last |-> ""]

\* Neither _validate_workflow, cmd_run nor test_step is running
NotNormalized == [t |-> "none", k |-> "", s |-> <<>>, c |-> <<>>]
\* The --inputs argument: absent, blank, text json.loads rejects, or the
\* text of a JSON document of type t (for an object, its members m)
InputsArg(kind, t, m) == [kind |-> kind, t |-> t, m |-> m]
NoInputsArg == InputsArg("none", "none", [k \in {} |-> NoneVal])
\* --text is <<>> when absent, <<text>> when given
NoArgs == [text |-> <<>>, inputs |-> NoInputsArg, workflow |-> "valid"]
\* test_step: ran is "raised" when rendering raised, "executed" when the step
\* was executed; ret is what it returned; goal and inputs as rendered
NotTested ==
    [ran |-> "none", ret |-> "none",
     goal |-> [lit |-> "", ref |-> [kind |-> "none", a |-> "", b |-> ""], sub |-> ""],
     inputs |-> <<>>]
\* The desktop executor before it is called
NoDesktopStep == [actions |-> <<>>, max_actions |-> 0]
DeskIdle ==
    /\ dStep = NoDesktopStep
    /\ dPc = "idle"
    /\ dActions = <<>>
    /\ dDone = 0

AuxIdle ==
    /\ nObj = NotNormalized
    /\ nRes = NotNormalized
    /\ cArgs = NoArgs
    /\ cPc = "idle"
    /\ cInputs = <<>>
    /\ tRes = NotTested
    /\ DeskIdle

\* call_json is not running
JsonIdle ==
    /\ jRetries = 0
    /\ jUser = [form |-> "str", segs |-> <<UserSeg("evidence")>>]
    /\ jExtra = <<>>
    /\ jPc = "idle"
    /\ jAttempt = 0
    /\ jLastErr = <<>>
    /\ jLastText = <<>>
    /\ jResult = NoResult
    /\ jRequests = <<>>
    /\ jResponses = <<>>

-----------------------------------------------------------------------------
(* Strings and templates.  A string is [lit, ref, sub]: its literal text,  *)
(* the placeholder it holds (NoRef when none) and, once rendered, the text *)
(* substituted for the placeholder.                                        *)

NoRef == [kind |-> "none", a |-> "", b |-> ""]
InputRef(name) == [kind |-> "input", a |-> name, b |-> ""]
StepRef(id, f) == [kind |-> "step", a |-> id, b |-> f]

Plain(s) == [lit |-> s, ref |-> NoRef, sub |-> ""]
Tmpl(s, r) == [lit |-> s, ref |-> r, sub |-> ""]

\* str(x) as jinja2 writes a value into the output
PyStr(x) ==
    CASE x.k = "float" -> (CASE x.v = "0" -> "0.0" [] x.v = "1" -> "1.0"
                             [] x.v = "7" -> "7.0" [] OTHER -> x.v)
      [] OTHER -> x.v

\* The attribute names of a Python dict that a step id or an output field may
\* coincide with, and those of a bound method
DictAttrs == {"items", "keys", "values", "get"}
MethodAttrs == {"__name__", "__doc__"}

\* str() of a bound method of a dict
MethodRepr(name) == "<built-in method " \o name \o " of dict object>"

\* jinja2's Environment.getattr(obj, name) for obj a dict: getattr(obj, name)
\* first, obj[name] second, an undefined value last.
\* [kind |-> "method" | "item" | "undefined"]
DictLookup(d, name) ==
    IF name \in DictAttrs THEN "method"
    ELSE IF name \in DOMAIN d THEN "item"
    ELSE "undefined"

\* The expression steps.X.field evaluated against ctx["steps"]: [ok, text];
\* StrictUndefined raises when an undefined value is looked into or written.
StepsLookup(cSteps, x, f) ==
    CASE DictLookup(cSteps, x) = "method" ->
             IF f \in MethodAttrs THEN [ok |-> TRUE, text |-> x]
             ELSE [ok |-> FALSE, text |-> ""]
      [] DictLookup(cSteps, x) = "item" ->
             (CASE DictLookup(cSteps[x], f) = "method" ->
                       [ok |-> TRUE, text |-> MethodRepr(f)]
                [] DictLookup(cSteps[x], f) = "item" ->
                       [ok |-> TRUE, text |-> PyStr(cSteps[x][f])]
                [] OTHER -> [ok |-> FALSE, text |-> ""])
      [] OTHER -> [ok |-> FALSE, text |-> ""]

\* render_str leaving every string as it is
render_str_Verbatim(s, cIn, cSteps) == [ok |-> TRUE, val |-> s]

\* render_templates on a string: env.from_string(obj).render(ctx) under
\* StrictUndefined.  [ok, val]
render_str(s, cIn, cSteps) ==
    CASE s.ref.kind = "none" -> [ok |-> TRUE, val |-> s]
      [] s.ref.kind = "input" ->
             IF s.ref.a \in DOMAIN cIn
             THEN [ok |-> TRUE, val |-> [lit |-> s.lit, ref |-> NoRef, sub |-> cIn[s.ref.a]]]
             ELSE [ok |-> FALSE, val |-> s]
      [] s.ref.kind = "step" ->
             IF StepsLookup(cSteps, s.ref.a, s.ref.b).ok
             THEN [ok |-> TRUE,
                   val |-> [lit |-> s.lit, ref |-> NoRef,
                            sub |-> StepsLookup(cSteps, s.ref.a, s.ref.b).text]]
             ELSE [ok |-> FALSE, val |-> s]

\* render_templates on a dict of strings
render_dict(d, cIn, cSteps) ==
    [ok |-> \A k \in DOMAIN d : render_str(d[k], cIn, cSteps).ok,
     val |-> [k \in DOMAIN d |-> render_str(d[k], cIn, cSteps).val]]

\* render_templates on a list of dicts of strings
render_list(l, cIn, cSteps) ==
    [ok |-> \A n \in 1..Len(l) : render_dict(l[n], cIn, cSteps).ok,
     val |-> [n \in 1..Len(l) |-> render_dict(l[n], cIn, cSteps).val]]

\* _render_step: a copy of the step with goal, inputs and postconditions
\* rendered and every fallback rendered in the same way
RECURSIVE render_step(_, _, _)
render_step(st, cIn, cSteps) ==
    LET g == render_str(st.goal, cIn, cSteps)
        n == render_dict(st.inputs, cIn, cSteps)
        p == render_list(st.postconditions, cIn, cSteps)
        fb == [m \in 1..Len(st.fallbacks) |-> render_step(st.fallbacks[m], cIn, cSteps)]
    IN  [ok |-> g.ok /\ n.ok /\ p.ok /\ \A m \in 1..Len(st.fallbacks) : fb[m].ok,
         step |-> [st EXCEPT !.goal = g.val, !.inputs = n.val,
                             !.postconditions = p.val,
                             !.fallbacks = [m \in 1..Len(st.fallbacks) |-> fb[m].step]]]

-----------------------------------------------------------------------------
(* Workflows *)

Ids == {"s1", "s2"}
NoId == ""

MkStep(id, type, hint, goal, ins, schema, retries) ==
    [id |-> id, type |-> type, executor_hint |-> hint, goal |-> goal,
     inputs |-> ins, outputs_schema |-> schema, policy |-> [retries |-> retries],
     postconditions |-> <<>>, fallbacks |-> <<>>]

NoInputs == [k \in {} |-> Plain("")]
TaskInputs == [k \in {"task"} |-> Tmpl("find", InputRef("user_text"))]
ActionInputs == [k \in {"actions"} |-> Plain("keystroke")]
NoSchema == [k \in {} |-> "string"]
LatSchema == [k \in {"lat"} |-> "number"]
WaitSchema == [k \in {"waited_seconds"} |-> "number"]

\* StepPolicy.retries is an int with no lower bound: -1 passes validation.
RetryChoices == {0 - 1, 0, MaxRetries}

StepSet ==
    {MkStep("s1", "WEB", "auto", Plain("search"), TaskInputs, LatSchema, r) :
        r \in RetryChoices}
    \cup {MkStep("s2", "WEB", "browser_use", Plain("search"), TaskInputs, LatSchema, 0),
          MkStep("s1", "WAIT", "auto", Plain("pause"), NoInputs, WaitSchema, 0),
          MkStep("s2", "DESKTOP", "desktop_ax", Tmpl("open", StepRef("s1", "lat")),
                 ActionInputs, NoSchema, 1),
          MkStep("s1", "WEB", "desktop_ax", Plain("search"), NoInputs, LatSchema, 0)}

\* The workflows WorkflowSpec validation accepts, within the bounds: a list
\* of steps; neither the ids nor the retries are constrained.
Workflows == UNION {[1..n -> StepSet] : n \in 1..MaxSteps}

InputsSet ==
    {[k \in {"user_text"} |-> "pizza"],
     [k \in {"user_text", "steps"} |-> IF k = "steps" THEN "mine" ELSE "pizza"]}

-----------------------------------------------------------------------------
(* Errors.  step is the step id the error message carries (NoId when it    *)
(* carries none), at the place in run that raised, cause the error it was  *)
(* raised from (<<e>>, or <<>> when raised from none).                     *)

Err(kind, id, at, cause) == [kind |-> kind, step |-> id, at |-> at, cause |-> cause]
NoCause == <<>>
NoErr == Err("none", NoId, "none", NoCause)

\* render_templates raises RuntimeError("Template render failed for '{obj}': {e}")
TemplateError(at, cause) == Err("template", NoId, at, cause)

-----------------------------------------------------------------------------
(* Capabilities and the repair hook: what they may do *)

NotDict == [k \in {"__notdict__"} |-> NoneVal]

GoodRaw ==
    [k \in {"lat", "debug"} |-> IF k = "lat" THEN Val("float", "1.5") ELSE Val("str", "abc")]
OrchRaws ==
    {[k \in {} |-> NoneVal],
     GoodRaw,
     [k \in {"lat"} |-> Val("str", "abc")]}

\* An outcome of web_exec.run / desktop_exec.run: it raises (with or without
\* the step id in its message) or returns a value, within or past max_seconds.
Outcome(t, named, raw, slow) == [t |-> t, named |-> named, raw |-> raw, slow |-> slow]
ExecOutcomes ==
    {Outcome("raise", n, NotDict, FALSE) : n \in BOOLEAN}
    \cup {Outcome("return", FALSE, NotDict, FALSE)}
    \cup {Outcome("return", FALSE, r, FALSE) : r \in OrchRaws}
    \cup {Outcome("return", FALSE, GoodRaw, TRUE)}

\* WaitSecs with a default of 0 seconds
WaitSecs_NoDefault(st) ==
    IF "seconds" \in DOMAIN st.inputs THEN Val("float", st.inputs["seconds"].lit)
    ELSE Val("float", "0")

\* The WAIT branch: secs = float(step.inputs.get("seconds", 1.0)); float()
\* raises ValueError on a text that is no number; the sleep may or may not
\* outlast max_seconds.
WaitSecs(st) ==
    IF "seconds" \in DOMAIN st.inputs THEN Val("float", st.inputs["seconds"].lit)
    ELSE Val("float", "1")
WaitNumeric(st) ==
    "seconds" \in DOMAIN st.inputs =>
        st.inputs["seconds"].sub = "" /\ st.inputs["seconds"].lit \in NumericText
WaitOutcomes(st) ==
    IF WaitNumeric(st)
    THEN {Outcome("return", FALSE, [k \in {"waited_seconds"} |-> WaitSecs(st)], sl) :
             sl \in BOOLEAN}
    ELSE {Outcome("raise", FALSE, NotDict, FALSE)}

\* The steps a repair hook may put at the failing position: a working step
\* under the same id, a step under another id, a step that fails the
\* dispatch checks, a step whose template cannot be resolved.
RepairSteps(st) ==
    {MkStep(st.id, "WEB", "auto", Plain("search"), TaskInputs, LatSchema, 0),
     MkStep("s1", "WAIT", "auto", Plain("pause"), NoInputs, WaitSchema, 0),
     MkStep(st.id, "DESKTOP", "browser_use", Plain("open"), NoInputs, NoSchema, 0),
     MkStep(st.id, "WEB", "auto", Tmpl("open", StepRef("s9", "lat")), TaskInputs,
            LatSchema, 0)}

\* The workflows the hook may return for position n of workflow w: w with
\* the step at n replaced, or a workflow too short to hold position n.
HookWorkflows(w, n, st) ==
    {[w EXCEPT !.steps = [p \in 1..Len(w.steps) |-> IF p = n THEN r ELSE w.steps[p]]] :
        r \in RepairSteps(st)}
    \cup {[w EXCEPT !.steps = SubSeq(w.steps, 1, n - 1)]}

-----------------------------------------------------------------------------
(* Orchestrator.run *)

Put(m, k, v) == [x \in DOMAIN m \cup {k} |-> IF x = k THEN v ELSE m[x]]

\* The dispatch checks of the retry loop (lines 139-162): NoErr when the
\* step may be handed to its capability.
DispatchCheck(st) ==
    CASE st.type = "WEB" ->
             IF st.executor_hint \notin {"browser_use", "auto"}
             THEN Err("dispatch", st.id, "retry", NoCause)
             ELSE IF "task" \notin DOMAIN st.inputs
             THEN Err("dispatch", st.id, "retry", NoCause)
             ELSE NoErr
      [] st.type = "DESKTOP" ->
             IF st.executor_hint \notin {"desktop_ax", "auto"}
             THEN Err("dispatch", st.id, "retry", NoCause)
             ELSE IF "task" \notin DOMAIN st.inputs /\ "actions" \notin DOMAIN st.inputs
             THEN Err("dispatch", st.id, "retry", NoCause)
             ELSE NoErr
      [] st.type = "WAIT" -> NoErr
      [] OTHER -> Err("unsupported", st.id, "retry", NoCause)

\* verify with the check of "nonempty" postconditions switched on:
\* not str(outputs.get(field, "")).strip() raises VerificationError
verify_Nonempty(st, outputs) ==
    \A n \in 1..Len(st.postconditions) :
        LET c == st.postconditions[n]
        IN  ("kind" \in DOMAIN c /\ c["kind"].lit = "nonempty") =>
                /\ c["field"].lit \in DOMAIN outputs
                /\ PyStr(outputs[c["field"].lit]) \notin {"", " "}

\* verify(step, outputs): its body is pass
verify(st, outputs) == TRUE

\* Line 174 is reached: the value returned in time, is a mapping and passed
\* _validate_outputs
VerifyReached(st, o) ==
    ~o.slow /\ o.raw # NotDict /\ validate_outputs(st.id, st.outputs_schema, o.raw).ok

\* What follows a returned value in the retry loop (lines 164-177): NoErr
\* when the attempt may commit.
AttemptError(st, o) ==
    IF o.slow THEN Err("timeout", st.id, "retry", NoCause)
    ELSE IF o.raw = NotDict THEN Err("notdict", st.id, "retry", NoCause)
    ELSE IF ~validate_outputs(st.id, st.outputs_schema, o.raw).ok
    THEN Err("validation", st.id, "retry", NoCause)
    ELSE IF ~verify(st, validate_outputs(st.id, st.outputs_schema, o.raw).dumped)
    THEN Err("verify", st.id, "retry", NoCause)
    ELSE NoErr

\* The error of one attempt of the retry loop with capability outcome o
TryError(st, o) ==
    IF DispatchCheck(st) # NoErr THEN DispatchCheck(st)
    ELSE IF o.t = "raise"
    THEN Err("capability", IF o.named THEN st.id ELSE NoId, "retry", NoCause)
    ELSE AttemptError(st, o)

\* RetriesLeft with the retry budget doubled
RetriesLeft_Twice(att, st) == att < 2 * st.policy.retries + 2

\* RetriesLeft with one retry more than policy.retries
RetriesLeft_OneMore(att, st) == att < st.policy.retries + 1

\* RetriesLeft off by one: the last retry is not made
RetriesLeft_OffByOne(att, st) == att + 1 < st.policy.retries

\* attempt < step.policy.retries (line 186)
RetriesLeft(att, st) == att < st.policy.retries

OutcomesOf(st) == IF st.type = "WAIT" THEN WaitOutcomes(st) ELSE ExecOutcomes

\* ctx["steps"][step.id] = outputs, for the outputs validated from outcome o
Commit(pos, st, o) ==
    LET outputs == validate_outputs(st.id, st.outputs_schema, o.raw).dumped
    IN  /\ ctxSteps' = Put(ctxSteps, st.id, outputs)
        /\ commits' = Append(commits, [pos |-> pos, id |-> st.id, out |-> outputs,
                                       fresh |-> st.id \notin DOMAIN ctxSteps])

\* RunStart with ctx = inputs; ctx["steps"] = {}: the caller's mapping is written
RunStart_Alias ==
    /\ pc = "start"
    /\ inputs' = Put(inputs, "steps", "{}")
    /\ ctxInputs' = [k \in DOMAIN inputs \ {"steps"} |-> inputs[k]]
    /\ ctxSteps' = [k \in {} |-> NoneVal]
    /\ iterSteps' = wf.steps
    /\ i' = 1
    /\ pc' = "loop"
    /\ UNCHANGED <<wf, hook, attempt, step, last_err, raised, attempts,
                   invoked, hookCalls, commits, onlyRaises, postAttempts, called,
                   returned, renders, verified>>
    /\ UNCHANGED valVars
    /\ UNCHANGED jsonVars
    /\ UNCHANGED auxVars

\* line 129: ctx = {**inputs, "steps": {}}; line 131: the loop binds wf.steps
RunStart ==
    /\ pc = "start"
    /\ ctxInputs' = [k \in DOMAIN inputs \ {"steps"} |-> inputs[k]]
    /\ ctxSteps' = [k \in {} |-> NoneVal]
    /\ iterSteps' = wf.steps
    /\ i' = 1
    /\ pc' = "loop"
    /\ UNCHANGED <<wf, inputs, hook, attempt, step, last_err, raised, attempts,
                   invoked, hookCalls, commits, onlyRaises, postAttempts, called,
                   returned, renders, verified>>
    /\ UNCHANGED valVars
    /\ UNCHANGED jsonVars
    /\ UNCHANGED auxVars

\* line 221: the loop is over
RunReturn ==
    /\ pc = "loop"
    /\ i > Len(iterSteps)
    /\ pc' = "returned"
    /\ UNCHANGED <<wf, iterSteps, inputs, hook, ctxInputs, ctxSteps, i, attempt,
                   step, last_err, raised, attempts, invoked, hookCalls, commits,
                   onlyRaises, postAttempts, called, returned, renders, verified>>
    /\ UNCHANGED valVars
    /\ UNCHANGED jsonVars
    /\ UNCHANGED auxVars

\* RunRender with _render_step assigning the rendered fields to the step it
\* was given
RunRender_WriteBack ==
    /\ pc = "loop"
    /\ i <= Len(iterSteps)
    /\ LET r == render_step(iterSteps[i], ctxInputs, ctxSteps)
       IN  IF ~r.ok
           THEN /\ pc' = "raised"
                /\ raised' = TemplateError("render", NoCause)
                /\ UNCHANGED <<i, attempt, step, last_err>>
           ELSE /\ step' = r.step
                /\ last_err' = NoErr
                /\ raised' = raised
                /\ IF r.step.policy.retries + 1 > 0
                   THEN pc' = "try" /\ attempt' = 0 /\ i' = i
                   ELSE pc' = "loop" /\ attempt' = attempt /\ i' = i + 1
    /\ attempts' = 0
    /\ invoked' = 0
    /\ hookCalls' = 0
    /\ onlyRaises' = TRUE
    /\ postAttempts' = 0
    /\ called' = <<>>
    /\ returned' = <<>>
    /\ renders' = 1
    /\ verified' = <<>>
    /\ LET r == render_step(iterSteps[i], ctxInputs, ctxSteps)
       IN  /\ iterSteps' = IF r.ok THEN [iterSteps EXCEPT ![i] = r.step] ELSE iterSteps
           /\ wf' = IF r.ok /\ i <= Len(wf.steps)
                    THEN [wf EXCEPT !.steps[i] = r.step] ELSE wf
    /\ UNCHANGED <<inputs, hook, ctxInputs, ctxSteps, commits>>
    /\ UNCHANGED valVars
    /\ UNCHANGED jsonVars
    /\ UNCHANGED auxVars

\* lines 131-135: the next step is rendered; a rendering error leaves run; a
\* step with retries < 0 gets an empty range and run goes on to the next step
\* (line 218: last_err is None)
RunRender ==
    /\ pc = "loop"
    /\ i <= Len(iterSteps)
    /\ LET r == render_step(iterSteps[i], ctxInputs, ctxSteps)
       IN  IF ~r.ok
           THEN /\ pc' = "raised"
                /\ raised' = TemplateError("render", NoCause)
                /\ UNCHANGED <<i, attempt, step, last_err>>
           ELSE /\ step' = r.step
                /\ last_err' = NoErr
                /\ raised' = raised
                /\ IF r.step.policy.retries + 1 > 0
                   THEN pc' = "try" /\ attempt' = 0 /\ i' = i
                   ELSE pc' = "loop" /\ attempt' = attempt /\ i' = i + 1
    /\ attempts' = 0
    /\ invoked' = 0
    /\ hookCalls' = 0
    /\ onlyRaises' = TRUE
    /\ postAttempts' = 0
    /\ called' = <<>>
    /\ returned' = <<>>
    /\ renders' = 1
    /\ verified' = <<>>
    /\ UNCHANGED <<wf, iterSteps, inputs, hook, ctxInputs, ctxSteps, commits>>
    /\ UNCHANGED valVars
    /\ UNCHANGED jsonVars
    /\ UNCHANGED auxVars

\* lines 136-192 and 216: one attempt of the retry loop
RunAttempt ==
    /\ pc = "try"
    /\ attempts' = attempts + 1
    /\ \E o \in OutcomesOf(step) :
          LET e == TryError(step, o)
          IN  /\ invoked' = IF DispatchCheck(step) = NoErr THEN invoked + 1 ELSE invoked
              /\ called' = IF DispatchCheck(step) = NoErr /\ step.type # "WAIT"
                            THEN <<step>> ELSE called
              /\ returned' = IF DispatchCheck(step) = NoErr /\ o.t = "return"
                              THEN <<o>> ELSE <<>>
              /\ verified' = IF DispatchCheck(step) = NoErr /\ o.t = "return"
                                  /\ VerifyReached(step, o)
                              THEN <<validate_outputs(step.id, step.outputs_schema, o.raw).dumped>>
                              ELSE <<>>
              /\ IF e = NoErr
                 THEN /\ Commit(i, step, o)
                      /\ last_err' = NoErr
                      /\ pc' = "loop"
                      /\ i' = i + 1
                      /\ UNCHANGED <<attempt, raised, onlyRaises>>
                 ELSE /\ last_err' = e
                      /\ onlyRaises' = (onlyRaises /\ e.kind = "capability")
                      /\ UNCHANGED <<ctxSteps, commits, i>>
                      /\ IF RetriesLeft(attempt, step)
                         THEN pc' = "try" /\ attempt' = attempt + 1 /\ raised' = raised
                         ELSE IF hook
                         THEN pc' = "repair" /\ attempt' = attempt /\ raised' = raised
                         ELSE pc' = "raised" /\ attempt' = attempt /\ raised' = e
    /\ UNCHANGED <<wf, iterSteps, inputs, hook, ctxInputs, step, hookCalls,
                   postAttempts, renders>>
    /\ UNCHANGED valVars
    /\ UNCHANGED jsonVars
    /\ UNCHANGED auxVars

\* RepairedStep reading the workflow the hook was given, not the one it returned
RepairedStep_Old(w, n) == IF n <= Len(wf.steps) THEN wf.steps[n] ELSE w.steps[n]

\* line 194: step0 = wf.steps[i], of the workflow the hook returned
RepairedStep(w, n) == w.steps[n]

\* lines 192-194: the hook is called with (wf, step, str(e), ctx); it raises,
\* or returns a workflow whose step at position i is rendered
RunRepair ==
    /\ pc = "repair"
    /\ hookCalls' = hookCalls + 1
    /\ \/ /\ pc' = "raised"
          /\ raised' = Err("hook", NoId, "hook", <<last_err>>)
          /\ UNCHANGED <<wf, step, renders>>
       \/ \E w \in HookWorkflows(wf, i, step) :
             /\ wf' = w
             /\ IF i > Len(w.steps)
                THEN /\ pc' = "raised"
                     /\ raised' = Err("index", NoId, "hook", <<last_err>>)
                     /\ step' = step
                     /\ renders' = renders
                ELSE LET r == render_step(RepairedStep(w, i), ctxInputs, ctxSteps)
                     IN  /\ renders' = renders + 1
                         /\ IF ~r.ok
                            THEN /\ pc' = "raised"
                                 /\ raised' = TemplateError("rerender", <<last_err>>)
                                 /\ step' = step
                            ELSE /\ pc' = "post"
                                 /\ step' = r.step
                                 /\ raised' = raised
    /\ UNCHANGED <<iterSteps, inputs, hook, ctxInputs, ctxSteps, i, attempt,
                   last_err, attempts, invoked, commits, onlyRaises, postAttempts,
                   called, returned, verified>>
    /\ UNCHANGED valVars
    /\ UNCHANGED jsonVars
    /\ UNCHANGED auxVars

\* PostError raised bare: raise e2, without from e
PostError_Unchained(st, o, cause) ==
    IF o.t = "raise"
    THEN Err("capability", IF o.named THEN st.id ELSE NoId, "post", NoCause)
    ELSE IF o.raw = NotDict \/ ~validate_outputs(st.id, st.outputs_schema, o.raw).ok
    THEN Err("validation", st.id, "post", NoCause)
    ELSE NoErr

\* The error of the attempt after a repair (lines 196-209): no dispatch
\* check, no max_seconds check, no isinstance check; _validate_outputs
\* rejects a value that is no mapping.
PostError(st, o, cause) ==
    IF o.t = "raise"
    THEN Err("capability", IF o.named THEN st.id ELSE NoId, "post", cause)
    ELSE IF o.raw = NotDict \/ ~validate_outputs(st.id, st.outputs_schema, o.raw).ok
    THEN Err("validation", st.id, "post", cause)
    ELSE IF ~verify(st, validate_outputs(st.id, st.outputs_schema, o.raw).dumped)
    THEN Err("verify", st.id, "post", cause)
    ELSE NoErr

\* lines 196-214: the one attempt after a repair
RunPostRepair ==
    /\ pc = "post"
    /\ invoked' = invoked + 1
    /\ postAttempts' = postAttempts + 1
    /\ called' = IF step.type # "WAIT" THEN <<step>> ELSE called
    /\ \E o \in OutcomesOf(step) :
          LET e == PostError(step, o, <<last_err>>)
          IN  /\ returned' = IF o.t = "return" THEN <<o>> ELSE <<>>
              /\ verified' = IF o.t = "return" /\ o.raw # NotDict
                                  /\ validate_outputs(step.id, step.outputs_schema, o.raw).ok
                              THEN <<validate_outputs(step.id, step.outputs_schema, o.raw).dumped>>
                              ELSE <<>>
              /\ IF e = NoErr
                 THEN /\ Commit(i, step, o)
                      /\ last_err' = NoErr
                      /\ pc' = "loop"
                      /\ i' = i + 1
                      /\ raised' = raised
                 ELSE /\ pc' = "raised"
                      /\ raised' = e
                      /\ UNCHANGED <<ctxSteps, commits, i, last_err>>
    /\ UNCHANGED <<wf, iterSteps, inputs, hook, ctxInputs, attempt, step, attempts,
                   hookCalls, onlyRaises, renders>>
    /\ UNCHANGED valVars
    /\ UNCHANGED jsonVars
    /\ UNCHANGED auxVars

IdleStep == MkStep("s1", "WAIT", "auto", Plain(""), NoInputs, NoSchema, 0)
MkWorkflow(steps) == [name |-> "wf", steps |-> steps]

InitRun ==
    /\ wf \in {MkWorkflow(s) : s \in Workflows}
    /\ inputs \in InputsSet
    /\ hook \in BOOLEAN
    /\ iterSteps = <<>>
    /\ ctxInputs = [k \in {} |-> ""]
    /\ ctxSteps = [k \in {} |-> NoneVal]
    /\ pc = "start"
    /\ i = 0
    /\ attempt = 0
    /\ step = IdleStep
    /\ last_err = NoErr
    /\ raised = NoErr
    /\ attempts = 0
    /\ invoked = 0
    /\ hookCalls = 0
    /\ commits = <<>>
    /\ onlyRaises = TRUE
    /\ postAttempts = 0
    /\ called = <<>>
    /\ returned = <<>>
    /\ renders = 0
    /\ verified = <<>>

ValIdle ==
    /\ vSchema = NoSchema
    /\ vRaw = [k \in {} |-> NoneVal]
    /\ vRes = NotRun

Init == InitRun /\ ValIdle /\ JsonIdle /\ AuxIdle

Next ==
    \/ RunStart
    \/ RunRender
    \/ RunAttempt
    \/ RunRepair
    \/ RunPostRepair
    \/ RunReturn

Spec == Init /\ [][Next]_vars

-----------------------------------------------------------------------------
(* Orchestrator.run on workflows of WAIT steps with and without            *)
(* inputs.seconds, and of one WEB step                                     *)

SecondsInputs(s) == [k \in {"seconds"} |-> s]

\* The postcondition {"kind": "nonempty", "field": "url"}
NonemptyUrl == [k \in {"kind", "field"} |-> IF k = "kind" THEN Plain("nonempty") ELSE Plain("url")]

ShortStepSet ==
    {MkStep("s1", "WAIT", "auto", Plain("pause"), NoInputs, WaitSchema, 0),
     MkStep("s1", "WAIT", "auto", Plain("pause"), SecondsInputs(Plain("7")), WaitSchema,
            MaxRetries),
     MkStep("s2", "WAIT", "auto", Plain("pause"), SecondsInputs(Plain("abc")), WaitSchema, 1),
     MkStep("s2", "WAIT", "auto", Plain("pause"),
            SecondsInputs(Tmpl("", InputRef("user_text"))), WaitSchema, 0),
     [MkStep("s2", "WEB", "auto", Plain("search"), TaskInputs, LatSchema, MaxRetries)
         EXCEPT !.postconditions = <<NonemptyUrl>>]}

ShortWorkflows == UNION {[1..n -> ShortStepSet] : n \in 1..MaxSteps}

InitShort ==
    /\ wf \in {MkWorkflow(s) : s \in ShortWorkflows}
    /\ inputs \in InputsSet
    /\ hook \in BOOLEAN
    /\ iterSteps = <<>>
    /\ ctxInputs = [k \in {} |-> ""]
    /\ ctxSteps = [k \in {} |-> NoneVal]
    /\ pc = "start"
    /\ i = 0
    /\ attempt = 0
    /\ step = IdleStep
    /\ last_err = NoErr
    /\ raised = NoErr
    /\ attempts = 0
    /\ invoked = 0
    /\ hookCalls = 0
    /\ commits = <<>>
    /\ onlyRaises = TRUE
    /\ postAttempts = 0
    /\ called = <<>>
    /\ returned = <<>>
    /\ renders = 0
    /\ verified = <<>>
    /\ ValIdle
    /\ JsonIdle
    /\ AuxIdle

SpecShort == InitShort /\ [][Next]_vars

\* run is one sequential call: whenever it can take a step (every capability
\* and hook call returns or raises) it eventually takes one
LiveStepSet ==
    {st \in ShortStepSet : "seconds" \notin DOMAIN st.inputs \/ st.inputs["seconds"].lit = "abc"}

InitLive ==
    /\ InitShort
    /\ \A n \in 1..Len(wf.steps) : wf.steps[n] \in LiveStepSet
    /\ inputs = [k \in {"user_text"} |-> "pizza"]

SpecLive == InitLive /\ [][Next]_vars /\ WF_vars(Next)

-----------------------------------------------------------------------------
(* Orchestrator.run with a repair hook that rewrites the workflow it is    *)
(* given and returns that same object: wf.steps stays the list the for     *)
(* loop of line 131 iterates                                               *)

\* The step such a hook may put at the positions after the failing one
LaterStep == MkStep("s1", "WAIT", "auto", Plain("pause"), NoInputs, WaitSchema, 0)

\* What such a hook may leave in wf.steps for position n: the step at n
\* replaced, with the later steps kept or rewritten, or the list cut short
InPlaceWorkflows(w, n, st) ==
    HookWorkflows(w, n, st)
    \cup {[w EXCEPT !.steps = [p \in 1..Len(w.steps) |->
                                  IF p = n THEN r
                                  ELSE IF p > n THEN LaterStep
                                  ELSE w.steps[p]]] :
             r \in RepairSteps(st)}

\* lines 192-194 with the hook writing into the workflow object it was given
RunRepairInPlace ==
    /\ pc = "repair"
    /\ hookCalls' = hookCalls + 1
    /\ \/ /\ pc' = "raised"
          /\ raised' = Err("hook", NoId, "hook", <<last_err>>)
          /\ UNCHANGED <<wf, iterSteps, step, renders>>
       \/ \E w \in InPlaceWorkflows(wf, i, step) :
             /\ wf' = w
             /\ iterSteps' = w.steps
             /\ IF i > Len(w.steps)
                THEN /\ pc' = "raised"
                     /\ raised' = Err("index", NoId, "hook", <<last_err>>)
                     /\ step' = step
                     /\ renders' = renders
                ELSE LET r == render_step(RepairedStep(w, i), ctxInputs, ctxSteps)
                     IN  /\ renders' = renders + 1
                         /\ IF ~r.ok
                            THEN /\ pc' = "raised"
                                 /\ raised' = TemplateError("rerender", <<last_err>>)
                                 /\ step' = step
                            ELSE /\ pc' = "post"
                                 /\ step' = r.step
                                 /\ raised' = raised
    /\ UNCHANGED <<inputs, hook, ctxInputs, ctxSteps, i, attempt,
                   last_err, attempts, invoked, commits, onlyRaises, postAttempts,
                   called, returned, verified>>
    /\ UNCHANGED valVars
    /\ UNCHANGED jsonVars
    /\ UNCHANGED auxVars

NextInPlace ==
    \/ RunStart
    \/ RunRender
    \/ RunAttempt
    \/ RunRepairInPlace
    \/ RunPostRepair
    \/ RunReturn

SpecInPlace == InitLive /\ [][NextInPlace]_vars

-----------------------------------------------------------------------------
(* _validate_outputs applied to every schema and returned mapping *)

RunIdle ==
    /\ wf = MkWorkflow(<<IdleStep>>)
    /\ inputs = [k \in {"user_text"} |-> "pizza"]
    /\ hook = FALSE
    /\ iterSteps = <<>>
    /\ ctxInputs = [k \in {} |-> ""]
    /\ ctxSteps = [k \in {} |-> NoneVal]
    /\ pc = "idle"
    /\ i = 0
    /\ attempt = 0
    /\ step = IdleStep
    /\ last_err = NoErr
    /\ raised = NoErr
    /\ attempts = 0
    /\ invoked = 0
    /\ hookCalls = 0
    /\ commits = <<>>
    /\ onlyRaises = TRUE
    /\ postAttempts = 0
    /\ called = <<>>
    /\ returned = <<>>
    /\ renders = 0
    /\ verified = <<>>

InitValidate ==
    /\ RunIdle
    /\ vSchema \in Schemas
    /\ vRaw \in Raws
    /\ vRes = NotRun
    /\ JsonIdle
    /\ AuxIdle

Validate ==
    /\ vRes = NotRun
    /\ vRes' = validate_outputs("s1", vSchema, vRaw)
    /\ UNCHANGED <<vSchema, vRaw>>
    /\ UNCHANGED orchVars
    /\ UNCHANGED jsonVars
    /\ UNCHANGED auxVars

NextValidate == Validate

SpecValidate == InitValidate /\ [][NextValidate]_vars

-----------------------------------------------------------------------------
(* _render_step applied to a step holding one template, against contexts   *)
(* with zero, one or two committed steps                                   *)

RenderIds == {"s1", "s2", "s9", "keys"}
RenderFields == {"lat", "url", "items", "__name__"}
RenderRefs == {NoRef} \cup {StepRef(x, f) : x \in RenderIds, f \in RenderFields}

RenderCtxs ==
    {[k \in {} |-> NoneVal],
     [k \in {"s1"} |-> [f \in {"lat"} |-> Val("float", "1.5")]],
     [k \in {"s1", "s2"} |-> IF k = "s1" THEN [f \in {"lat"} |-> Val("float", "1.5")]
                             ELSE [f \in {"url"} |-> Val("str", "abc")]]}

RenderBase == MkStep("s2", "WEB", "auto", Plain("search"), TaskInputs, LatSchema, 0)

\* RenderBase with template t at one of the four places _render_step renders
WithTemplate(place, t) ==
    CASE place = "goal" -> [RenderBase EXCEPT !.goal = t]
      [] place = "inputs" -> [RenderBase EXCEPT !.inputs = [k \in {"task"} |-> t]]
      [] place = "postconditions" ->
             [RenderBase EXCEPT !.postconditions = <<[k \in {"value"} |-> t]>>]
      [] place = "fallbacks" ->
             [RenderBase EXCEPT !.fallbacks = <<[RenderBase EXCEPT !.goal = t]>>]

RenderPlaces == {"goal", "inputs", "postconditions", "fallbacks"}
RenderSteps == {WithTemplate(pl, Tmpl("open", r)) : pl \in RenderPlaces, r \in RenderRefs}

InitRender ==
    /\ wf \in {MkWorkflow(<<s>>) : s \in RenderSteps}
    /\ inputs = [k \in {"user_text"} |-> "pizza"]
    /\ hook = FALSE
    /\ iterSteps = <<>>
    /\ ctxInputs = [k \in {"user_text"} |-> "pizza"]
    /\ ctxSteps \in RenderCtxs
    /\ pc = "unrendered"
    /\ i = 1
    /\ attempt = 0
    /\ step = IdleStep
    /\ last_err = NoErr
    /\ raised = NoErr
    /\ attempts = 0
    /\ invoked = 0
    /\ hookCalls = 0
    /\ commits = <<>>
    /\ onlyRaises = TRUE
    /\ postAttempts = 0
    /\ called = <<>>
    /\ returned = <<>>
    /\ renders = 0
    /\ verified = <<>>
    /\ ValIdle
    /\ JsonIdle
    /\ AuxIdle

\* step = _render_step(step0, self.env, ctx)
Render ==
    /\ pc = "unrendered"
    /\ LET r == render_step(wf.steps[i], ctxInputs, ctxSteps)
       IN  IF r.ok
           THEN pc' = "rendered" /\ step' = r.step /\ raised' = raised
           ELSE pc' = "raised" /\ step' = step /\ raised' = TemplateError("render", NoCause)
    /\ UNCHANGED <<wf, iterSteps, inputs, hook, ctxInputs, ctxSteps, i, attempt,
                   last_err, attempts, invoked, hookCalls, commits, onlyRaises,
                   postAttempts, called, returned, renders, verified>>
    /\ UNCHANGED valVars
    /\ UNCHANGED jsonVars
    /\ UNCHANGED auxVars

\* test_step's ctx = {"inputs": runtime_inputs, "steps": previous_outputs or {}}
\* without its "steps" key: the one name "inputs", bound to the mapping
\* build_runtime_inputs made of --text
TestCtxInputs == [k \in {"inputs"} |-> "{'user_text': 'pizza'}"]

\* test_step(wf, step_id, user_inputs, previous_outputs) with the committed
\* outputs as previous_outputs: goal and inputs are rendered (a rendering
\* error leaves test_step); the step is then executed and its outputs, or
\* None when the execution raised, are returned
TestStep ==
    /\ pc \in {"unrendered", "rendered", "raised"}
    /\ tRes.ran = "none"
    /\ LET g == render_str(wf.steps[i].goal, TestCtxInputs, ctxSteps)
           n == render_dict(wf.steps[i].inputs, TestCtxInputs, ctxSteps)
       IN  IF g.ok /\ n.ok
           THEN \E r \in {"outputs", "None"} :
                    tRes' = [ran |-> "executed", ret |-> r, goal |-> g.val, inputs |-> n.val]
           ELSE tRes' = [NotTested EXCEPT !.ran = "raised"]
    /\ UNCHANGED <<nObj, nRes, cArgs, cPc, cInputs, deskVars>>
    /\ UNCHANGED orchVars
    /\ UNCHANGED valVars
    /\ UNCHANGED jsonVars

NextRender ==
    \/ Render
    \/ TestStep

SpecRender == InitRender /\ [][NextRender]_vars

-----------------------------------------------------------------------------
(* LLMJsonCaller.call_json *)

\* What the oracle may answer: resp.output_parsed (NoneVal when the SDK gives
\* none) and resp.output_text
Response(parsed, text) == [parsed |-> parsed, text |-> text]
GoodObj == Val("dict", "ok")
OtherObj == Val("dict", "ok2")
BadObj == Val("dict", "bad")
ListObj == Val("list", "1")
Responses ==
    {Response(NoneVal, "{ok}"),
     Response(NoneVal, " {bad} "),
     Response(NoneVal, "[1]"),
     Response(NoneVal, "oops"),
     Response(NoneVal, ""),
     Response(BadObj, "{bad}"),
     Response(GoodObj, "{ok}"),
     Response(OtherObj, "{ok2}")}

\* str.strip()
Strip(text) == IF text = " {bad} " THEN "{bad}" ELSE text

\* json.loads(text): [ok, val]
json_loads(text) ==
    CASE text = "{ok}" -> [ok |-> TRUE, val |-> GoodObj]
      [] text = "{bad}" -> [ok |-> TRUE, val |-> BadObj]
      [] text = "[1]" -> [ok |-> TRUE, val |-> ListObj]
      [] OTHER -> [ok |-> FALSE, val |-> NoneVal]

\* validator(parsed): [ok, err]; it raises on the object it does not accept
validator(parsed) ==
    IF parsed \in {GoodObj, OtherObj} THEN [ok |-> TRUE, err |-> "", val |-> parsed.v]
    ELSE [ok |-> FALSE, err |-> "1 validation error for WorkflowSpec", val |-> ""]

\* Judge returning every JSON object, validated or not
Judge_Unvalidated(resp) ==
    LET text == Strip(resp.text)
        parsed == IF resp.parsed # NoneVal THEN resp.parsed ELSE json_loads(text).val
    IN  IF resp.parsed = NoneVal /\ ~json_loads(text).ok
        THEN [ok |-> FALSE, err |-> "JSON parse failed", val |-> ""]
        ELSE IF parsed.k # "dict"
        THEN [ok |-> FALSE, err |-> "Expected JSON object", val |-> ""]
        ELSE [ok |-> TRUE, err |-> "", val |-> parsed.v]

\* Lines 149-168 for one response: [ok, err, val], err the str() of the new
\* last_err, val what validator returned
Judge(resp) ==
    LET text == Strip(resp.text)
        parsed == IF resp.parsed # NoneVal THEN resp.parsed ELSE json_loads(text).val
    IN  IF resp.parsed = NoneVal /\ ~json_loads(text).ok
        THEN [ok |-> FALSE, err |-> "JSON parse failed", val |-> ""]
        ELSE IF parsed.k # "dict"
        THEN [ok |-> FALSE, err |-> "Expected JSON object", val |-> ""]
        ELSE validator(parsed)

\* str(last_err)
StrErr(e) == IF e = <<>> THEN "None" ELSE e[1]

\* Lines 118-128: the repair prefix of attempt att, "" (no segment) for the
\* first attempt
repair_prefix(att, lastErr, lastText, extra) ==
    IF att > 0
    THEN <<Seg("repair", "", StrErr(lastErr),
               IF extra # <<>> /\ extra[1] # "" THEN extra ELSE <<>>,
               IF lastText # <<>> /\ lastText[1] # "" THEN lastText ELSE <<>>)>>
    ELSE <<>>

\* PrependRepair putting the repair prefix after the user content
PrependRepair_After(prefix, user) == [user EXCEPT !.segs = user.segs \o prefix]

\* Lines 131-138: repair_prefix + user_content for a string, the prefix as
\* the first part for a list of parts
PrependRepair(prefix, user) == [user EXCEPT !.segs = prefix \o user.segs]

\* range(cfg.retries + 1) running one attempt further
AttemptsLeft_OneMore(att, retries) == att < retries + 2

\* for attempt in range(cfg.retries + 1)
AttemptsLeft(att, retries) == att < retries + 1

\* CallJsonAttempt with an exception of the request caught like an invalid
\* response: last_err is set and the next attempt follows
CallJsonAttempt_Swallow ==
    /\ jPc = "loop"
    /\ AttemptsLeft(jAttempt, jRetries)
    /\ jRequests' = Append(jRequests,
                           PrependRepair(repair_prefix(jAttempt, jLastErr, jLastText, jExtra),
                                         jUser))
    /\ \/ /\ jLastErr' = <<"APIError">>
          /\ jAttempt' = jAttempt + 1
          /\ UNCHANGED <<jPc, jResult, jLastText, jResponses>>
       \/ \E resp \in Responses :
             /\ jResponses' = Append(jResponses, resp)
             /\ jLastText' = <<Strip(resp.text)>>
             /\ IF Judge(resp).ok
                THEN /\ jPc' = "returned"
                     /\ jResult' = [kind |-> "value", attempts |-> jAttempt + 1,
                                    last |-> Judge(resp).val]
                     /\ UNCHANGED <<jAttempt, jLastErr>>
                ELSE /\ jLastErr' = <<Judge(resp).err>>
                     /\ jAttempt' = jAttempt + 1
                     /\ UNCHANGED <<jPc, jResult>>
    /\ UNCHANGED <<jRetries, jUser, jExtra>>
    /\ UNCHANGED orchVars
    /\ UNCHANGED valVars
    /\ UNCHANGED auxVars

\* Lines 117-168: one attempt.  The request is sent; the oracle raises (the
\* exception leaves call_json), or answers and the answer is judged.
CallJsonAttempt ==
    /\ jPc = "loop"
    /\ AttemptsLeft(jAttempt, jRetries)
    /\ jRequests' = Append(jRequests,
                           PrependRepair(repair_prefix(jAttempt, jLastErr, jLastText, jExtra),
                                         jUser))
    /\ \/ /\ jPc' = "raised"
          /\ jResult' = [kind |-> "APIError", attempts |-> jAttempt + 1, last |-> ""]
          /\ UNCHANGED <<jAttempt, jLastErr, jLastText, jResponses>>
       \/ \E resp \in Responses :
             /\ jResponses' = Append(jResponses, resp)
             /\ jLastText' = <<Strip(resp.text)>>
             /\ IF Judge(resp).ok
                THEN /\ jPc' = "returned"
                     /\ jResult' = [kind |-> "value", attempts |-> jAttempt + 1,
                                    last |-> Judge(resp).val]
                     /\ UNCHANGED <<jAttempt, jLastErr>>
                ELSE /\ jLastErr' = <<Judge(resp).err>>
                     /\ jAttempt' = jAttempt + 1
                     /\ UNCHANGED <<jPc, jResult>>
    /\ UNCHANGED <<jRetries, jUser, jExtra>>
    /\ UNCHANGED orchVars
    /\ UNCHANGED valVars
    /\ UNCHANGED auxVars

\* Lines 170-172: the range is exhausted
CallJsonExhausted ==
    /\ jPc = "loop"
    /\ ~AttemptsLeft(jAttempt, jRetries)
    /\ jPc' = "raised"
    /\ jResult' = [kind |-> "JSONGuardrailError", attempts |-> jRetries + 1,
                   last |-> StrErr(jLastErr)]
    /\ UNCHANGED <<jRetries, jUser, jExtra, jAttempt, jLastErr, jLastText, jRequests,
                   jResponses>>
    /\ UNCHANGED orchVars
    /\ UNCHANGED valVars
    /\ UNCHANGED auxVars

\* cfg.retries is an int with no lower bound
JsonRetryChoices == {0 - 1} \cup 0..MaxJsonRetries

InitJson ==
    /\ RunIdle
    /\ ValIdle
    /\ jRetries \in JsonRetryChoices
    /\ jUser \in UserContents
    /\ jExtra \in {<<>>, <<"">>, <<"no prose">>}
    /\ jPc = "loop"
    /\ jAttempt = 0
    /\ jLastErr = <<>>
    /\ jLastText = <<>>
    /\ jResult = NoResult
    /\ jRequests = <<>>
    /\ jResponses = <<>>
    /\ AuxIdle

NextJson == CallJsonAttempt \/ CallJsonExhausted

SpecJson == InitJson /\ [][NextJson]_vars

-----------------------------------------------------------------------------
(* Compiler._validate_workflow: _walk_and_normalize, then validation.      *)
(* A string is a sequence of characters; "u" stands for the word user_text *)
(* and "s" for a word steps.<id>.<field>, "a" for any other text.          *)

Words == {"u", "s"}

\* "{{ " + inner + " }}"
Canonical(w) == <<"{", "{", " ", w, " ", "}", "}">>

Pieces == {<<"{">>, <<"}">>, <<" ">>, <<"u">>, <<"s">>, <<"a">>, Canonical("u")}

RECURSIVE Flatten(_)
Flatten(ps) == IF ps = <<>> THEN <<>> ELSE Head(ps) \o Flatten(Tail(ps))

\* The strings an oracle may put into a workflow
OracleStrings == {Flatten(ps) : ps \in UNION {[1..n -> Pieces] : n \in 0..MaxPieces}}

\* \s* from position p on: the first position that holds no whitespace
RECURSIVE SkipSpaces(_, _)
SkipSpaces(s, p) ==
    IF p <= Len(s) /\ s[p] = " " THEN SkipSpaces(s, p + 1) ELSE p

\* MatchEnd without the lookbehind and the lookahead of the pattern
MatchEnd_NoLookaround(s, p) ==
    IF s[p] # "{" THEN 0
    ELSE LET w == SkipSpaces(s, p + 1)
         IN  IF w > Len(s) \/ s[w] \notin Words THEN 0
             ELSE LET c == SkipSpaces(s, w + 1)
                  IN  IF c > Len(s) \/ s[c] # "}" THEN 0
                      ELSE c

\* _SINGLE_BRACE_TOKEN matched at position p of s: the position of the
\* closing brace, 0 when there is no match.  (?<!\{) \{ \s* (word) \s* \} (?!\})
MatchEnd(s, p) ==
    IF s[p] # "{" \/ (p > 1 /\ s[p - 1] = "{") THEN 0
    ELSE LET w == SkipSpaces(s, p + 1)
         IN  IF w > Len(s) \/ s[w] \notin Words THEN 0
             ELSE LET c == SkipSpaces(s, w + 1)
                  IN  IF c > Len(s) \/ s[c] # "}" THEN 0
                      ELSE IF c < Len(s) /\ s[c + 1] = "}" THEN 0
                      ELSE c

\* _SINGLE_BRACE_TOKEN.sub(repl, s) from position p on: the leftmost
\* matches, none overlapping, each replaced by the canonical form
RECURSIVE SubFrom(_, _)
SubFrom(s, p) ==
    IF p > Len(s) THEN <<>>
    ELSE IF MatchEnd(s, p) > 0
    THEN Canonical(s[SkipSpaces(s, p + 1)]) \o SubFrom(s, MatchEnd(s, p) + 1)
    ELSE <<s[p]>> \o SubFrom(s, p + 1)

normalize_templates_in_str(s) == SubFrom(s, 1)

\* JSON values: strings, numbers, lists and objects.  A value is a node:
\* its type, the key it stands under in its object ("" elsewhere), its
\* characters when it is a string, its members when it is a list or object.
JStr(str) == [t |-> "str", k |-> "", s |-> str, c |-> <<>>]
JNum == [t |-> "num", k |-> "", s |-> <<>>, c |-> <<>>]
JList(l) == [t |-> "list", k |-> "", s |-> <<>>, c |-> l]
JDict(d) == [t |-> "dict", k |-> "", s |-> <<>>, c |-> d]
Keyed(key, node) == [node EXCEPT !.k = key]

\* str: rewritten; list and dict: every member walked, keys kept; others kept
RECURSIVE walk_and_normalize(_)
walk_and_normalize(obj) ==
    CASE obj.t = "str" -> [obj EXCEPT !.s = normalize_templates_in_str(obj.s)]
      [] obj.t \in {"list", "dict"} ->
             [obj EXCEPT !.c = [n \in 1..Len(obj.c) |-> walk_and_normalize(obj.c[n])]]
      [] OTHER -> obj

\* A workflow document with string str at one place: the name, a goal, an
\* input, an input nested in a list, a postcondition value
StepJson(goal, task, cond) ==
    JDict(<<Keyed("goal", JStr(goal)),
            Keyed("inputs", JDict(<<Keyed("task", task)>>)),
            Keyed("postconditions", JList(<<JDict(<<Keyed("value", JStr(cond))>>)>>)),
            Keyed("retries", JNum)>>)
WorkflowJson(name, st) ==
    JDict(<<Keyed("name", JStr(name)), Keyed("steps", JList(<<st>>))>>)
OraclePlaces == {"name", "goal", "inputs", "nested", "postconditions"}
OracleWorkflow(place, str) ==
    CASE place = "name" -> WorkflowJson(str, StepJson(<<"a">>, JStr(<<"a">>), <<>>))
      [] place = "goal" -> WorkflowJson(<<"a">>, StepJson(str, JStr(<<"a">>), <<>>))
      [] place = "inputs" -> WorkflowJson(<<"a">>, StepJson(<<"a">>, JStr(str), <<>>))
      [] place = "nested" ->
             WorkflowJson(<<"a">>, StepJson(<<"a">>, JList(<<JNum, JList(<<JStr(str)>>)>>), <<>>))
      [] place = "postconditions" -> WorkflowJson(<<"a">>, StepJson(<<"a">>, JStr(<<"a">>), str))

\* Lines 110-111: if not spec.name: spec.name = "workflow"
DefaultName(obj) ==
    [obj EXCEPT !.c = [n \in 1..Len(obj.c) |->
        IF obj.c[n].k = "name" /\ obj.c[n].s = <<>>
        THEN Keyed("name", JStr(<<"a">>))
        ELSE obj.c[n]]]

InitNormalize ==
    /\ RunIdle
    /\ ValIdle
    /\ JsonIdle
    /\ nObj \in {OracleWorkflow(pl, s) : pl \in OraclePlaces, s \in OracleStrings}
    /\ nRes = NotNormalized
    /\ cArgs = NoArgs
    /\ cPc = "idle"
    /\ cInputs = <<>>
    /\ tRes = NotTested
    /\ DeskIdle

\* _validate_workflow(data): every document built here is one that
\* WorkflowSpec.model_validate accepts, with its strings as they are
ValidateWorkflow ==
    /\ nRes.t = "none"
    /\ nRes' = DefaultName(walk_and_normalize(nObj))
    /\ UNCHANGED <<nObj, cArgs, cPc, cInputs, tRes, deskVars>>
    /\ UNCHANGED orchVars
    /\ UNCHANGED valVars
    /\ UNCHANGED jsonVars

NextNormalize == ValidateWorkflow

SpecNormalize == InitNormalize /\ [][NextNormalize]_vars

-----------------------------------------------------------------------------
(* cli.cmd_run *)

CliTexts == {"", " ", "pizza", " pizza "}
str_strip(text) == CASE text = " " -> "" [] text = " pizza " -> "pizza" [] OTHER -> text

\* The values --inputs may give user_text
UserTextVals ==
    {Val("str", "pizza"), Val("str", ""), Val("str", " "), NoneVal, Val("int", "7"),
     Val("bool", "False")}

InputsArgs ==
    {NoInputsArg,
     InputsArg("blank", "none", [k \in {} |-> NoneVal]),
     InputsArg("malformed", "none", [k \in {} |-> NoneVal]),
     InputsArg("json", "list", [k \in {} |-> NoneVal]),
     InputsArg("json", "dict", [k \in {} |-> NoneVal]),
     InputsArg("json", "dict", [k \in {"region"} |-> Val("str", "abc")])}
    \cup {InputsArg("json", "dict", [k \in {"user_text"} |-> v]) : v \in UserTextVals}
    \cup {InputsArg("json", "dict",
                    [k \in {"user_text", "region"} |->
                        IF k = "user_text" THEN v ELSE Val("int", "7")]) :
             v \in {Val("str", "pizza"), Val("str", "")}}

WorkflowFiles == {"missing", "invalid", "valid"}

InitCli ==
    /\ RunIdle
    /\ ValIdle
    /\ JsonIdle
    /\ nObj = NotNormalized
    /\ nRes = NotNormalized
    /\ cArgs \in [text : {<<>>} \cup {<<t>> : t \in CliTexts},
                  inputs : InputsArgs,
                  workflow : WorkflowFiles]
    /\ cPc = "idle"
    /\ cInputs = <<>>
    /\ tRes = NotTested
    /\ DeskIdle

\* Lines 107-118: the runtime inputs cmd_run builds from the arguments.
\* [ok, t, m]: ok is FALSE when SystemExit or a JSON error leaves cmd_run.
RuntimeInputs(a) ==
    IF a.text # <<>> /\ str_strip(a.text[1]) # ""
    THEN [ok |-> TRUE, t |-> "dict",
          m |-> [k \in {"user_text"} |-> Val("str", str_strip(a.text[1]))]]
    ELSE IF a.inputs.kind = "json"
    THEN [ok |-> TRUE, t |-> a.inputs.t, m |-> a.inputs.m]
    ELSE [ok |-> FALSE, t |-> "none", m |-> a.inputs.m]

\* Line 120: "user_text" not in inputs or not str(inputs["user_text"]).strip();
\* on a JSON list either the membership test fails or the subscript raises
HasUserText(r) ==
    /\ r.t = "dict"
    /\ "user_text" \in DOMAIN r.m
    /\ str_strip(PyStr(r.m["user_text"])) # ""

\* Lines 99-129: cmd_run up to the call of Orchestrator.run
CmdRun ==
    /\ cPc = "idle"
    /\ IF cArgs.workflow # "valid"
       THEN cPc' = "failed" /\ cInputs' = cInputs
       ELSE IF ~RuntimeInputs(cArgs).ok \/ ~HasUserText(RuntimeInputs(cArgs))
       THEN cPc' = "failed" /\ cInputs' = cInputs
       ELSE cPc' = "running" /\ cInputs' = RuntimeInputs(cArgs).m
    /\ UNCHANGED <<nObj, nRes, cArgs, tRes, deskVars>>
    /\ UNCHANGED orchVars
    /\ UNCHANGED valVars
    /\ UNCHANGED jsonVars

\* Lines 129-132: Orchestrator.run returns a context, which is written to
\* run_outputs.json, or raises
CmdRunDone ==
    /\ cPc = "running"
    /\ cPc' \in {"written", "raised"}
    /\ UNCHANGED <<nObj, nRes, cArgs, cInputs, tRes, deskVars>>
    /\ UNCHANGED orchVars
    /\ UNCHANGED valVars
    /\ UNCHANGED jsonVars

NextCli ==
    \/ CmdRun
    \/ CmdRunDone

SpecCli == InitCli /\ [][NextCli]_vars

-----------------------------------------------------------------------------
(* Claims about Orchestrator.run (checked under Spec) *)

\* The step at position i of the workflow run started with
Step0 == iterSteps[i]
CommittedPos == {commits[n].pos : n \in 1..Len(commits)}

\* C1: a step with policy.retries = r >= 0 whose attempts all fail gets
\* exactly r+1 attempts before the repair hook is invoked, or before run
\* raises when no repair hook is configured; the hook is never invoked while
\* retries remain.
C1_ExactAttempts ==
    /\ pc \in {"repair", "post"} => attempts = Step0.policy.retries + 1
    /\ (pc = "raised" /\ hookCalls > 0) => attempts = Step0.policy.retries + 1
    /\ (pc = "raised" /\ raised.at = "retry") =>
           (~hook /\ attempts = Step0.policy.retries + 1)
    /\ pc = "try" =>
           (hookCalls = 0 /\ attempts = attempt /\ attempt <= Step0.policy.retries)

\* C1 witness: retries = 2, three failed attempts, the hook is about to be called
C1_Witness ==
    /\ pc = "repair"
    /\ Step0.policy.retries = 2
    /\ attempts = 3
    /\ hookCalls = 0

\* C2: steps execute strictly in document order: the capability of the step
\* at position k+1 is invoked only after the step at position k committed its
\* output, and no step is skipped.
C2_DocumentOrder ==
    /\ (pc \in {"try", "repair", "post"} /\ i > 1) => (i - 1) \in CommittedPos
    /\ pc = "returned" => CommittedPos = 1..Len(iterSteps)

\* C3: ctx['steps'] is append-only: each commit adds one new key and no
\* existing entry is overwritten.
C3_AppendOnly == \A n \in 1..Len(commits) : commits[n].fresh

\* C4: if a step's capability raises on every attempt and no repair hook is
\* configured, then when run raises ctx['steps'] holds no entry for that
\* step's id.
C4_NoEntryForFailedStep ==
    (pc = "raised" /\ raised.at = "retry" /\ ~hook /\ onlyRaises)
        => step.id \notin DOMAIN ctxSteps

\* C5: whenever run terminates with an error, the error identifies the id of
\* the failing step, for every kind of failure.
C5_ErrorNamesStep == pc = "raised" => raised.step = Step0.id

\* C6: when run returns normally, the returned context holds every runtime
\* input key with its original value and, under 'steps', exactly one entry
\* for every step id of the workflow, equal to that step's validated output.
C6_FullContext ==
    pc = "returned" =>
        /\ \A k \in DOMAIN inputs : k \in DOMAIN ctxInputs /\ ctxInputs[k] = inputs[k]
        /\ DOMAIN ctxSteps = {iterSteps[p].id : p \in 1..Len(iterSteps)}
        /\ \A p \in 1..Len(iterSteps) :
               \E n \in 1..Len(commits) :
                   commits[n].pos = p /\ ctxSteps[iterSteps[p].id] = commits[n].out

C14_CauseIsOriginatingFailure ==
    (pc = "raised" /\ raised.at = "post") =>
        /\ last_err # NoErr
        /\ last_err.at = "retry"
        /\ raised.cause = <<last_err>>

\* C14 witness: the retry loop ended on a validation error, the attempt
\* after the repair on a capability error raised from it
C14_Witness ==
    /\ pc = "raised"
    /\ raised.at = "post"
    /\ raised.kind = "capability"
    /\ last_err.kind = "validation"

\* C15: a template that cannot be resolved while a step is rendered is
\* handled like any other run-time error: run raises for it only when the
\* step has no retries left and no repair hook is configured.
C15_TemplateErrorRetried ==
    (pc = "raised" /\ raised.kind = "template" /\ raised.at = "render") =>
        (Step0.policy.retries <= 0 /\ ~hook)

\* C16: every step handed to the WEB or DESKTOP capability, in the retry
\* loop and after a repair alike, has passed the dispatch checks.
C16_DispatchChecked ==
    \A n \in 1..Len(called) :
        called[n].type \in {"WEB", "DESKTOP"} => DispatchCheck(called[n]) = NoErr

\* C17: an attempt whose capability call took longer than max_seconds counts
\* as failed (a timeout error, no commit, run does not go on to the next
\* step), in the retry loop and after a repair alike.
C17_SlowNeverCommitted ==
    (returned # <<>> /\ returned[1].slow /\ step.type \in {"WEB", "DESKTOP"}) =>
        /\ last_err.kind = "timeout"
        /\ pc \notin {"loop", "returned"}

\* What run may write into ctx["steps"]: the validated output of a returned
\* mapping that passed validation and verify, under the id of the step
CommitWrites(raw) ==
    /\ raw # NotDict
    /\ validate_outputs(step'.id, step'.outputs_schema, raw).ok
    /\ verify(step', validate_outputs(step'.id, step'.outputs_schema, raw).dumped)
    /\ ctxSteps' = Put(ctxSteps, step'.id,
                       validate_outputs(step'.id, step'.outputs_schema, raw).dumped)

\* C18: run leaves the caller's inputs mapping unmodified, never changes the
\* context keys copied from it, and changes ctx only by writing
\* ctx['steps'][step.id] at the commit of an attempt whose returned value
\* was a mapping that passed output validation and verify.
C18_ContextFrame ==
    [][/\ inputs' = inputs
       /\ pc # "start" => ctxInputs' = ctxInputs
       /\ ctxSteps' # ctxSteps =>
              /\ Len(commits') = Len(commits) + 1
              /\ returned' # <<>>
              /\ CommitWrites(returned'[1].raw)]_vars

\* C18 witness: two steps committed and run returned with the input keys
\* as the caller gave them
C18_Witness ==
    /\ pc = "returned"
    /\ Len(commits) = 2
    /\ DOMAIN ctxSteps = {"s1", "s2"}
    /\ ctxInputs = inputs

-----------------------------------------------------------------------------
(* Claims about output validation (checked under SpecValidate) *)

\* The zero value of a declared type, as the specification lists them
ZeroValue(t) ==
    CASE t \in {"string", "path"} -> Val("str", "")
      [] t = "number" -> Val("float", "0")
      [] t = "boolean" -> Val("bool", "False")

\* x is a value of declared primitive type t (a number is a float or an int)
OfDeclaredType(t, x) ==
    CASE t \in {"string", "path"} -> x.k = "str"
      [] t = "number" -> x.k \in {"float", "int"}
      [] t = "boolean" -> x.k = "bool"

\* Python's ==: an int equals the float of the same value
SameValue(x, y) ==
    \/ x = y
    \/ x.k \in {"float", "int"} /\ y.k \in {"float", "int"} /\ x.v = y.v

Declared == DOMAIN vSchema
Omitted == DOMAIN vSchema \ DOMAIN vRaw
Validated == vRes # NotRun

\* C7: a declared field the returned mapping omits does not make validation
\* fail (it succeeds whenever the declared fields that are present hold values
\* of their declared type), and the committed output holds the omitted field
\* with the zero value of its declared type.
C7_MissingFieldDefaults ==
    (Validated /\ Omitted # {}) =>
        /\ (\A f \in Declared \cap DOMAIN vRaw : OfDeclaredType(vSchema[f], vRaw[f]))
               => vRes.ok
        /\ vRes.ok => \A f \in Omitted : vRes.dumped[f] = ZeroValue(vSchema[f])

\* C7 witness: schema {ok: string, lat: number}, the capability returns
\* {ok: "abc"} and the output is committed with lat defaulted
C7_Witness ==
    /\ Validated
    /\ vRes.ok
    /\ Omitted = {"lat"}
    /\ "ok" \in Declared \cap DOMAIN vRaw

AllDeclaredPresentAndTyped ==
    \A f \in Declared : f \in DOMAIN vRaw /\ OfDeclaredType(vSchema[f], vRaw[f])

\* C8 (as claimed): when every declared field is present with a value of the
\* declared type, the committed output is exactly the returned mapping
\* restricted to the declared fields.
C8_ExactMapping ==
    (Validated /\ AllDeclaredPresentAndTyped) =>
        /\ vRes.ok
        /\ DOMAIN vRes.dumped = Declared
        /\ \A f \in Declared : SameValue(vRes.dumped[f], vRaw[f])

\* C8 (amended): the same for a non-empty outputs_schema.
C8_ExactMappingNonEmpty ==
    (Validated /\ Declared # {} /\ AllDeclaredPresentAndTyped) =>
        /\ vRes.ok
        /\ DOMAIN vRes.dumped = Declared
        /\ \A f \in Declared : SameValue(vRes.dumped[f], vRaw[f])

\* C8 witness: two declared fields, both returned with values of their type
C8_Witness ==
    /\ Validated
    /\ Declared = {"ok", "lat"}
    /\ AllDeclaredPresentAndTyped
    /\ vSchema["lat"] = "number"
    /\ vRes.ok

\* C9 (as claimed): the key set of the committed output is the key set of
\* outputs_schema, also when outputs_schema is empty.
C9_SchemaShape == (Validated /\ vRes.ok) => DOMAIN vRes.dumped = Declared

\* C9 (amended): the key set of the committed output is the key set of a
\* non-empty outputs_schema, and {ok} for an empty one; no other returned key
\* is kept.
C9_SchemaShapeOrOk ==
    (Validated /\ vRes.ok) =>
        DOMAIN vRes.dumped = IF Declared = {} THEN {"ok"} ELSE Declared

\* C9 witness: a returned key that is not declared is dropped
C9_Witness ==
    /\ Validated
    /\ vRes.ok
    /\ Declared = {"lat"}
    /\ DOMAIN vRaw = {"ok", "lat"}

\* The wrong-typed values the claim lists
WrongType(t, x) ==
    CASE t = "number" -> x.k \in {"str", "bool"}
      [] t = "boolean" -> x.k \in {"float", "int", "str"}
      [] t \in {"string", "path"} -> x.k \in {"float", "int"}

\* C10: a declared field present with a value that is not of the declared
\* primitive type makes validation fail with an error naming the step, the
\* expected fields and the received keys; the value is never converted and
\* committed.
C10_WrongTypeFails ==
    (Validated /\ \E f \in Declared \cap DOMAIN vRaw : WrongType(vSchema[f], vRaw[f]))
        => /\ ~vRes.ok
           /\ vRes.step = "s1"
           /\ vRes.expected = Declared
           /\ vRes.got = DOMAIN vRaw

-----------------------------------------------------------------------------
(* Claims about WAIT steps (checked under SpecShort) *)

\* float(inputs.seconds), 1.0 when inputs holds no seconds
SecondsOf(st) ==
    IF "seconds" \in DOMAIN st.inputs THEN Val("float", st.inputs["seconds"].lit)
    ELSE Val("float", "1")

\* C22: a WAIT step is never handed to the web or desktop capability; what
\* its branch returns is {waited_seconds: seconds}, seconds being
\* inputs.seconds or 1.0 when absent, and with outputs_schema
\* {waited_seconds: number} that mapping is what gets committed.
C22_WaitSleeps ==
    /\ \A n \in 1..Len(called) : called[n].type # "WAIT"
    /\ (step.type = "WAIT" /\ returned # <<>> /\ pc # "post") =>
           returned[1].raw = [k \in {"waited_seconds"} |-> SecondsOf(step)]
    /\ (step.type = "WAIT" /\ step.outputs_schema = WaitSchema
            /\ returned # <<>> /\ pc = "loop") =>
           /\ commits # <<>>
           /\ commits[Len(commits)].pos = i - 1
           /\ commits[Len(commits)].out = [k \in {"waited_seconds"} |-> SecondsOf(step)]

\* WAIT steps without seconds and with seconds = 7 have both committed
C22_Witness ==
    /\ Len(commits) = 2
    /\ commits[1].out = [k \in {"waited_seconds"} |-> Val("float", "1")]
    /\ commits[2].out = [k \in {"waited_seconds"} |-> Val("float", "7")]
    /\ step.type = "WAIT"
    /\ called = <<>>

-----------------------------------------------------------------------------
(* Claims about cmd_run (checked under SpecCli) *)

\* C23: cmd_run starts the orchestrator only with runtime inputs that hold
\* the key user_text with a non-empty string value.
C23_UserTextRequired ==
    cPc \in {"running", "written", "raised"} =>
        /\ "user_text" \in DOMAIN cInputs
        /\ cInputs["user_text"].k = "str"
        /\ cInputs["user_text"].v # ""

-----------------------------------------------------------------------------
(* Claims about verify (checked under SpecShort) *)

\* The value the last attempt's capability returned passes _validate_outputs
ReturnedValid ==
    /\ returned # <<>>
    /\ returned[1].raw # NotDict
    /\ validate_outputs(step.id, step.outputs_schema, returned[1].raw).ok

\* C25: verify never fails and postconditions do not decide whether a step
\* commits: an attempt whose returned value passes output validation (and,
\* in the retry loop, came in time) commits; verify is called only with the
\* validated output of the attempt.
C25_VerifyNeverFails ==
    /\ last_err.kind # "verify"
    /\ raised.kind # "verify"
    /\ verified # <<>> =>
           /\ ReturnedValid
           /\ verified[1] = validate_outputs(step.id, step.outputs_schema,
                                             returned[1].raw).dumped
    /\ (pc # "post" /\ ReturnedValid /\ (postAttempts > 0 \/ ~returned[1].slow)) =>
           /\ pc \in {"loop", "returned"}
           /\ verified # <<>>
           /\ commits # <<>>
           /\ commits[Len(commits)].out = verified[1]

\* A step has committed an output that does not meet its postcondition
C25_Witness ==
    /\ pc = "loop"
    /\ verified # <<>>
    /\ step.postconditions = <<NonemptyUrl>>
    /\ "url" \notin DOMAIN verified[1]
    /\ commits # <<>>
    /\ commits[Len(commits)].out = verified[1]

-----------------------------------------------------------------------------
(* Claims about termination (checked under SpecLive) *)

\* The position whose step the counters attempts and postAttempts belong to
CountedPos == IF pc \in {"loop", "returned"} THEN i - 1 ELSE i

\* C30: when every capability and hook call returns or raises, run returns
\* or raises; each step is attempted at most policy.retries + 2 times.
C30_Terminates ==
    /\ <>(pc \in {"returned", "raised"})
    /\ [](CountedPos \in 1..Len(iterSteps) =>
              /\ attempts <= iterSteps[CountedPos].policy.retries + 1
              /\ postAttempts <= 1
              /\ invoked <= attempts + postAttempts)

\* run has returned after a step used policy.retries + 2 attempts
C30_Witness ==
    /\ pc = "returned"
    /\ attempts = MaxRetries + 1
    /\ postAttempts = 1
    /\ iterSteps[i - 1].policy.retries = MaxRetries

-----------------------------------------------------------------------------
(* Claims about rendering (checked under SpecRender) *)

DictRefs(d) == {d[k].ref : k \in DOMAIN d}

\* The placeholders of a step: goal, inputs, postconditions and fallbacks
RECURSIVE RefsOf(_)
RefsOf(st) ==
    {st.goal.ref} \cup DictRefs(st.inputs)
    \cup UNION {DictRefs(st.postconditions[n]) : n \in 1..Len(st.postconditions)}
    \cup UNION {RefsOf(st.fallbacks[m]) : m \in 1..Len(st.fallbacks)}

\* steps.X.field where X has no committed entry or field is no key of X's
\* committed output
Unresolved(r) ==
    /\ r.kind = "step"
    /\ \/ r.a \notin DOMAIN ctxSteps
       \/ r.b \notin DOMAIN ctxSteps[r.a]

\* C11: rendering a step fails whenever a template of its goal, inputs,
\* postconditions or fallbacks references steps.X.field where X has no
\* committed entry or field is not a key of X's committed output.
C11_UnresolvedFails ==
    pc = "rendered" => \A r \in RefsOf(wf.steps[i]) : ~Unresolved(r)

-----------------------------------------------------------------------------
(* Claims about rendering within Orchestrator.run (checked under Spec) *)

\* C24: within one step the templates are rendered exactly once before the
\* first attempt and exactly once more after a repair; a retry dispatches the
\* same rendered step again without rendering.
C24_RenderOncePerPhase ==
    [][/\ pc' = "try" => renders' = 1 /\ RefsOf(step') = {NoRef}
       /\ (pc = "try" /\ pc' = "try") => step' = step
       /\ pc = "try" => renders' = 1 /\ called' \in {called, <<step>>}
       /\ pc' = "repair" => renders' = 1
       /\ pc' = "post" => renders' = 2 /\ RefsOf(step') = {NoRef}
       /\ pc = "post" => renders' = 2 /\ called' \in {called, <<step>>}]_vars

\* A repaired step about to be attempted, after the retries of the first
\* rendering were used up
C24_Witness ==
    /\ pc = "post"
    /\ renders = 2
    /\ attempts = MaxRetries + 1
    /\ \E k \in DOMAIN step.inputs : step.inputs[k].sub # ""

-----------------------------------------------------------------------------
(* Claims about failure and step identity (checked under Spec) *)

\* C26: once a step fails terminally - its last permitted attempt fails with
\* no repair hook, or the attempt after a repair fails - run raises: nothing
\* is invoked or committed afterwards and no context is returned.
C26_TerminalFailureAborts ==
    /\ [](pc = "raised" => raised # NoErr)
    /\ [][/\ pc # "raised"
          /\ (pc = "post" /\ commits' = commits) => pc' = "raised"
          /\ (pc = "try" /\ commits' = commits /\ ~hook
                  /\ ~(attempt < step.policy.retries)) => pc' = "raised"
          /\ pc' = "raised" => commits' = commits]_vars

\* run has raised on the failed attempt after a repair, with steps left
C26_Witness ==
    /\ pc = "raised"
    /\ raised.at = "post"
    /\ i < Len(iterSteps)
    /\ postAttempts = 1

\* C27: the output of the step at position i is stored under the id that
\* step has in the workflow run was started with.
C27_StableIds ==
    \A n \in 1..Len(commits) : commits[n].id = iterSteps[commits[n].pos].id

\* C28: the step ids of a workflow that WorkflowSpec validation accepted are
\* pairwise distinct.
C28_DistinctIds ==
    \A a, b \in 1..Len(wf.steps) : a # b => wf.steps[a].id # wf.steps[b].id

-----------------------------------------------------------------------------
(* Claims about test_step (checked under SpecRender) *)

\* C29: test_step renders goal and inputs of a step exactly as run does:
\* against the same context, {{ user_text }} resolving to the --text value
\* and {{ steps.<id>.<field> }} to the supplied previous outputs.
C29_TestStepRendersAsRun ==
    (pc = "rendered" /\ tRes.ran # "none") =>
        /\ tRes.ran = "executed"
        /\ tRes.goal = step.goal
        /\ tRes.inputs = step.inputs

-----------------------------------------------------------------------------
(* cmd_run with the run of its Orchestrator *)

\* --text and --inputs of the runs followed to their end
CliRunArgs ==
    [text : {<<>>, <<"pizza">>},
     inputs : {NoInputsArg,
               InputsArg("json", "dict", [k \in {"user_text"} |-> Val("str", "pizza")])},
     workflow : {"valid"}]

\* cmd_run is entered; wf is what load_workflow will return, inputs what
\* build_runtime_inputs will; Orchestrator(web_exec, desktop_exec) has no
\* repair hook (lines 123-129)
InitCliRun ==
    /\ InitRun
    /\ hook = FALSE
    /\ inputs = [k \in {"user_text"} |-> "pizza"]
    /\ ValIdle
    /\ JsonIdle
    /\ nObj = NotNormalized
    /\ nRes = NotNormalized
    /\ cArgs \in CliRunArgs
    /\ cPc = "idle"
    /\ cInputs = <<>>
    /\ tRes = NotTested
    /\ DeskIdle

\* Line 129: ctx = orch.run(wf, inputs), a step of run at a time
CmdRunOrchestrator ==
    /\ cPc = "running"
    /\ \/ RunStart
       \/ RunRender
       \/ RunAttempt
       \/ RunReturn

\* Lines 131-136: run returned; run_outputs.json is written
CmdRunWrite ==
    /\ cPc = "running"
    /\ pc = "returned"
    /\ cPc' = "written"
    /\ UNCHANGED <<nObj, nRes, cArgs, cInputs, tRes, deskVars>>
    /\ UNCHANGED orchVars
    /\ UNCHANGED valVars
    /\ UNCHANGED jsonVars

\* Line 129: run raised; the exception leaves cmd_run
CmdRunAbort ==
    /\ cPc = "running"
    /\ pc = "raised"
    /\ cPc' = "raised"
    /\ UNCHANGED <<nObj, nRes, cArgs, cInputs, tRes, deskVars>>
    /\ UNCHANGED orchVars
    /\ UNCHANGED valVars
    /\ UNCHANGED jsonVars

NextCliRun ==
    \/ CmdRun
    \/ CmdRunOrchestrator
    \/ CmdRunWrite
    \/ CmdRunAbort

SpecCliRun == InitCliRun /\ [][NextCliRun]_vars

-----------------------------------------------------------------------------
(* MacOSAXDesktopExecutor.run: one attempt of a DESKTOP step *)

\* Longest action list and largest policy.max_actions
MaxActions == 3

\* DesktopPlannerConfig.max_actions (14 in the source, scaled to the lists)
planner_max_actions == 2

\* Action types: one _run_action executes, one it rejects as unsupported
ActionTypes == {"spotlight_open", "unsupported"}

ActionLists == UNION {[1..n -> ActionTypes] : n \in 0..MaxActions}

\* A DESKTOP step: inputs.actions, <<lst>> when it is a list and <<>> when the
\* key is absent, and policy.max_actions
DesktopSteps ==
    [actions : {<<>>} \cup {<<l>> : l \in ActionLists}, max_actions : 1..MaxActions]

\* _validate_planner_output(data, max_actions) on a plan's actions list: the
\* list is not empty and not longer than max_actions
validate_planner_output(actions, max_actions) ==
    /\ actions # <<>>
    /\ Len(actions) <= max_actions

\* What call_json returns to _plan_actions_from_task: a plan its validator,
\* _validate_planner_output with planner_cfg.max_actions, accepted
PlannedActions == {l \in ActionLists : validate_planner_output(l, planner_max_actions)}

InitDesktop ==
    /\ RunIdle
    /\ ValIdle
    /\ JsonIdle
    /\ nObj = NotNormalized
    /\ nRes = NotNormalized
    /\ cArgs = NoArgs
    /\ cPc = "idle"
    /\ cInputs = <<>>
    /\ tRes = NotTested
    /\ dStep \in DesktopSteps
    /\ dPc = "idle"
    /\ dActions = <<>>
    /\ dDone = 0

\* Lines 325-333: inputs.actions, when it is a list, is taken as it is
DesktopRunLiteral ==
    /\ dPc = "idle"
    /\ dStep.actions # <<>>
    /\ dActions' = dStep.actions[1]
    /\ dPc' = "acting"
    /\ UNCHANGED <<dStep, dDone>>
    /\ UNCHANGED <<nObj, nRes, cArgs, cPc, cInputs, tRes>>
    /\ UNCHANGED orchVars
    /\ UNCHANGED valVars
    /\ UNCHANGED jsonVars

\* Lines 334-338: otherwise the planner is asked; call_json returns a
\* validated plan or raises
DesktopRunPlan ==
    /\ dPc = "idle"
    /\ dStep.actions = <<>>
    /\ \/ \E l \in PlannedActions : dActions' = l /\ dPc' = "acting"
       \/ dPc' = "raised" /\ dActions' = dActions
    /\ UNCHANGED <<dStep, dDone>>
    /\ UNCHANGED <<nObj, nRes, cArgs, cPc, cInputs, tRes>>
    /\ UNCHANGED orchVars
    /\ UNCHANGED valVars
    /\ UNCHANGED jsonVars

\* Lines 340-341 and _run_action: the next action is executed, or rejected
\* with ValueError before anything is done
DesktopRunAction ==
    /\ dPc = "acting"
    /\ dDone < Len(dActions)
    /\ IF dActions[dDone + 1] = "unsupported"
       THEN dPc' = "raised" /\ dDone' = dDone
       ELSE dPc' = dPc /\ dDone' = dDone + 1
    /\ UNCHANGED <<dStep, dActions>>
    /\ UNCHANGED <<nObj, nRes, cArgs, cPc, cInputs, tRes>>
    /\ UNCHANGED orchVars
    /\ UNCHANGED valVars
    /\ UNCHANGED jsonVars

\* Line 343: return self._make_outputs(step)
DesktopRunReturn ==
    /\ dPc = "acting"
    /\ dDone = Len(dActions)
    /\ dPc' = "returned"
    /\ UNCHANGED <<dStep, dActions, dDone>>
    /\ UNCHANGED <<nObj, nRes, cArgs, cPc, cInputs, tRes>>
    /\ UNCHANGED orchVars
    /\ UNCHANGED valVars
    /\ UNCHANGED jsonVars

NextDesktop ==
    \/ DesktopRunLiteral
    \/ DesktopRunPlan
    \/ DesktopRunAction
    \/ DesktopRunReturn

SpecDesktop == InitDesktop /\ [][NextDesktop]_vars

-----------------------------------------------------------------------------
(* Claims about what a repair leaves alone (checked under SpecInPlace) *)

\* C31: a repair replaces only the failing step: the steps run goes on to
\* execute at the positions after i are those of the workflow run started
\* with, whatever the workflow the hook returned holds there.
C31_RepairReplacesOneStep ==
    [][pc = "repair" =>
           /\ Len(iterSteps') = Len(iterSteps)
           /\ \A p \in (i + 1)..Len(iterSteps) : iterSteps'[p] = iterSteps[p]]_vars

-----------------------------------------------------------------------------
(* Claims about call_json (checked under SpecJson) *)

Passing == {n \in 1..Len(jResponses) : Judge(jResponses[n]).ok}

\* C19: call_json issues at most cfg.retries + 1 requests; it stops at the
\* first response that parses to a JSON object and passes validator; when
\* all cfg.retries + 1 attempts fail it raises JSONGuardrailError with the
\* last attempt's error in its message.
C19_BoundedAttempts ==
    /\ Len(jRequests) <= jRetries + 1
    /\ Len(jResponses) <= Len(jRequests)
    /\ \A n \in Passing : n = Len(jRequests) /\ jPc = "returned"
    /\ jPc = "returned" => Len(jResponses) \in Passing
    /\ (jPc = "raised" /\ Len(jResponses) = jRetries + 1) =>
           /\ jResult.kind = "JSONGuardrailError"
           /\ jResult.attempts = jRetries + 1
           /\ Len(jResponses) > 0 => jResult.last = Judge(jResponses[Len(jResponses)]).err
    /\ jResult.kind = "JSONGuardrailError" => Len(jResponses) = jRetries + 1

\* C19 witness: cfg.retries = 2, three failed attempts, the last one a
\* response that is no JSON object
C19_Witness ==
    /\ jPc = "raised"
    /\ jRetries = 2
    /\ Len(jRequests) = 3
    /\ jResult.kind = "JSONGuardrailError"
    /\ jResult.last = "Expected JSON object"

\* The repair prefix quotes the error and the (stripped) output of response r
QuotesFailure(seg, r) ==
    /\ seg.kind = "repair"
    /\ seg.err = Judge(r).err
    /\ Strip(r.text) # "" => seg.out = <<Strip(r.text)>>

\* C20: every request after a failed attempt is a repair follow-up that
\* embeds the preceding attempt's error text and its invalid output, ahead
\* of the original user content; the first request carries no repair text.
C20_RepairFollowUps ==
    \A n \in 1..Len(jRequests) :
        /\ jRequests[n].form = jUser.form
        /\ n = 1 => jRequests[n].segs = jUser.segs
        /\ n > 1 =>
              /\ Len(jRequests[n].segs) = Len(jUser.segs) + 1
              /\ QuotesFailure(jRequests[n].segs[1], jResponses[n - 1])
              /\ SubSeq(jRequests[n].segs, 2, Len(jRequests[n].segs)) = jUser.segs

\* C20 witness: a list of parts as user content; the second request quotes
\* the validator's error and the rejected output, the third the parse error
C20_Witness ==
    /\ Len(jRequests) = 3
    /\ jUser.form = "list"
    /\ jRequests[2].segs[1].err = "1 validation error for WorkflowSpec"
    /\ jRequests[2].segs[1].out = <<"{bad}">>
    /\ jRequests[3].segs[1].err = "JSON parse failed"
    /\ jRequests[3].segs[1].out = <<"oops">>

-----------------------------------------------------------------------------
(* Claims about template normalisation (checked under SpecNormalize) *)

\* The string values of a JSON value, at any depth
RECURSIVE StringValues(_)
StringValues(obj) ==
    CASE obj.t = "str" -> {obj.s}
      [] obj.t \in {"list", "dict"} -> UNION {StringValues(obj.c[n]) : n \in 1..Len(obj.c)}
      [] OTHER -> {}

\* A brace, a word and a brace, with optional whitespace, from p to e
TokenBetween(s, p, e) ==
    /\ s[p] = "{"
    /\ s[e] = "}"
    /\ \E w \in (p + 1)..(e - 1) :
          /\ s[w] \in Words
          /\ \A x \in (p + 1)..(e - 1) : x # w => s[x] = " "

\* s holds a single-brace token: a token that does not stand in double braces
HasSingleBraceToken(s) ==
    \E p, e \in 1..Len(s) :
        /\ TokenBetween(s, p, e)
        /\ ~(p > 1 /\ s[p - 1] = "{" /\ e < Len(s) /\ s[e + 1] = "}")

\* C21: the workflow _validate_workflow returns holds no single-brace token
\* {user_text} or {steps.<id>.<field>} in any string value, at any depth.
C21_NoSingleBraceTokenLeft ==
    nRes.t # "none" =>
        \A s \in StringValues(nRes) : ~HasSingleBraceToken(s)

-----------------------------------------------------------------------------
(* Further claims about call_json (checked under SpecJson) *)

\* The object validator is given for response r
ParsedOf(r) == IF r.parsed # NoneVal THEN r.parsed ELSE json_loads(Strip(r.text)).val

\* C32: when the request itself raises, call_json raises that error at
\* once: every request but the last got a response that was judged, the
\* failed request is not counted as a failed validation, and no request
\* follows it.
C32_RequestErrorPropagates ==
    /\ [](Len(jRequests) > Len(jResponses) =>
              /\ jPc = "raised"
              /\ jResult.kind = "APIError"
              /\ Len(jRequests) = Len(jResponses) + 1
              /\ jAttempt = Len(jResponses)
              /\ (jLastErr # <<>> => jLastErr[1] = Judge(jResponses[Len(jResponses)]).err))
    /\ [][jPc = "loop" /\ Len(jRequests) = Len(jResponses)]_vars

\* The request after a failed validation raised
C32_Witness ==
    /\ jResult.kind = "APIError"
    /\ Len(jRequests) = 2
    /\ Len(jResponses) = 1
    /\ jRetries >= 1

\* C33: call_json returns only what validator returned for the last response
\* received, and validator was given a JSON object; a response that is no
\* JSON object is a failed attempt.
C33_OnlyValidatedValues ==
    /\ jPc = "returned" =>
           /\ jResponses # <<>>
           /\ Len(jRequests) = Len(jResponses)
           /\ ParsedOf(jResponses[Len(jResponses)]).k = "dict"
           /\ validator(ParsedOf(jResponses[Len(jResponses)])).ok
           /\ jResult.kind = "value"
           /\ jResult.last = validator(ParsedOf(jResponses[Len(jResponses)])).val
    /\ \A n \in 1..Len(jResponses) :
           (ParsedOf(jResponses[n]).k # "dict" \/ ~validator(ParsedOf(jResponses[n])).ok) =>
               /\ jAttempt >= n
               /\ (n = Len(jResponses) => jPc # "returned")

\* A value was returned on the attempt after a response that was a JSON list
C33_Witness ==
    /\ jPc = "returned"
    /\ Len(jResponses) = 2
    /\ ParsedOf(jResponses[1]).k = "list"
    /\ jResult.last = "ok2"

-----------------------------------------------------------------------------
(* Claims about the desktop executor (checked under SpecDesktop) *)

\* C34: the primitive actions the DESKTOP capability executes for one step
\* attempt never exceed the step's policy.max_actions.
C34_ActionsWithinPolicy == dDone <= dStep.max_actions

-----------------------------------------------------------------------------
(* Claims about rendering and the workflow document (checked under Spec) *)

\* C35: rendering leaves the workflow document alone: the render at the top
\* of the loop changes neither wf nor the list being iterated, and after a
\* repair wf is the workflow the hook returned, its step at i as the hook
\* wrote it, the rendered step being a separate value.
C35_RenderLeavesWorkflow ==
    [][/\ pc = "loop" => wf' = wf /\ iterSteps' = iterSteps
       /\ (pc = "repair" /\ pc' = "post") =>
              /\ wf' \in HookWorkflows(wf, i, step)
              /\ iterSteps' = iterSteps
              /\ step' = render_step(wf'.steps[i], ctxInputs, ctxSteps).step]_vars

\* A step was rendered to something else than its template and the workflow
\* still holds the template
C35_Witness ==
    /\ pc = "try"
    /\ renders = 1
    /\ step.goal # iterSteps[i].goal
    /\ wf.steps[i] = iterSteps[i]
    /\ render_step(wf.steps[i], ctxInputs, ctxSteps).step = step

-----------------------------------------------------------------------------
(* Further claims about template normalization (checked under SpecNormalize) *)

\* C36: template normalization is idempotent: _walk_and_normalize applied to
\* a document it produced, strings in lists and mappings included, returns
\* the document unchanged.
C36_NormalizeIdempotent ==
    nRes.t # "none" =>
        /\ walk_and_normalize(walk_and_normalize(nObj)) = walk_and_normalize(nObj)
        /\ walk_and_normalize(nRes) = nRes

\* A document was normalized and normalization rewrote a token in it
C36_Witness ==
    /\ nRes.t # "none"
    /\ walk_and_normalize(nObj) # nObj
    /\ \E s \in StringValues(nObj) : HasSingleBraceToken(s)

-----------------------------------------------------------------------------
(* Claims about the run command's output document (checked under SpecCliRun) *)

\* C37: run_outputs.json is written only after every step of the workflow has
\* committed, and it is not written when the run aborted on a failing step.
C37_OutputsAfterAllCommits ==
    /\ cPc = "written" => (pc = "returned" /\ CommittedPos = 1..Len(wf.steps))
    /\ pc = "raised" => cPc # "written"

====
